---- MODULE Spec2Model ----
(***************************************************************************)
(* Model of gerador-oficial: the Gemini service layer (getAi, getJson,     *)
(* generateWithRetry and the exported generate* operations), the           *)
(* smartTruncate helper and the handlers of the App component              *)
(* (handleGenerateAll, handleRegenerate, handleEnhancePrompt, ...).        *)
(*                                                                         *)
(* A JavaScript string that the code inspects character by character (a    *)
(* generated text, an upstream error message) is a sequence of one-letter  *)
(* strings.  A message shown to the user is a record naming the template   *)
(* of the source and the values interpolated into it.                      *)
(***************************************************************************)
EXTENDS Integers, Sequences, FiniteSets, TLC

(***************************************************************************)
(* Program constants.                                                      *)
(***************************************************************************)
MAX_RETRIES == 3
MAX_REFINEMENT_ATTEMPTS == 2
WINDOW_MARGIN == 500
MIN_FLOOR == 100
BACKOFF_BASE == 2
DEFAULT_CHARACTER_COUNT == 1500

(***************************************************************************)
(* Bounds of the model.                                                    *)
(***************************************************************************)
\* generation actions (GenerateAll, Regenerate, Enhance) started in one run
MaxActions == 2
\* upstream requests of one action that fail, under Spec
MaxFailures == 1
\* steps of the user while one action is in flight
MaxInterleaved == 1
\* edits of the input fields in one run
MaxEdits == 2
\* longest text given to smartTruncate in TruncSpec
MaxLen == 4
\* largest target count for which the window is computed on its own
MaxCount == 700

(***************************************************************************)
(* Strings.                                                                *)
(***************************************************************************)
Pad(k) == [i \in 1..k |-> "a"]

Max2(a, b) == IF a >= b THEN a ELSE b

SetMax(S) == CHOOSE m \in S : \A k \in S : k <= m

\* String.prototype.lastIndexOf for a one-letter needle, 0-based, -1 if absent
lastIndexOf(s, c) ==
    SetMax({-1} \cup {i - 1 : i \in {j \in 1..Len(s) : s[j] = c}})

\* String.prototype.substring(from, to), 0-based, to exclusive
substring(s, from, to) ==
    LET lo == Max2(0, IF from > Len(s) THEN Len(s) ELSE from)
        hi == Max2(0, IF to > Len(s) THEN Len(s) ELSE to)
    IN  IF lo <= hi THEN SubSeq(s, lo + 1, hi) ELSE SubSeq(s, hi + 1, lo)

\* String.prototype.includes
includes(s, sub) ==
    \E i \in 0..(Len(s) - Len(sub)) : SubSeq(s, i + 1, i + Len(sub)) = sub

UpperLetters == <<"A","B","C","D","E","F","G","H","I","J","K","L","M",
                  "N","O","P","Q","R","S","T","U","V","W","X","Y","Z">>
LowerLetters == <<"a","b","c","d","e","f","g","h","i","j","k","l","m",
                  "n","o","p","q","r","s","t","u","v","w","x","y","z">>

toLowerCase(s) ==
    [i \in 1..Len(s) |->
        IF \E k \in 1..Len(UpperLetters) : UpperLetters[k] = s[i]
        THEN LowerLetters[CHOOSE k \in 1..Len(UpperLetters) : UpperLetters[k] = s[i]]
        ELSE s[i]]

\* mutant: the ellipsis has four dots
Ellipsis_fourDots == <<".", ".", ".", ".">>

Ellipsis == <<".", ".", ".">>

(***************************************************************************)
(* smartTruncate (App.tsx).                                                *)
(***************************************************************************)
\* mutant: the cut is made at whichever of the sentence end and the space
\* comes last
smartTruncate_latestBreak(text, maxLength) ==
    IF Len(text) <= maxLength THEN text
    ELSE LET searchArea == substring(text, 0, maxLength)
             lastSentenceEnd == SetMax({lastIndexOf(searchArea, "."),
                                        lastIndexOf(searchArea, "!"),
                                        lastIndexOf(searchArea, "?")})
             lastSpace == lastIndexOf(searchArea, " ")
         IN  IF lastSentenceEnd > 0 /\ lastSentenceEnd > lastSpace
             THEN substring(searchArea, 0, lastSentenceEnd + 1)
             ELSE IF lastSpace > 0
                  THEN substring(searchArea, 0, lastSpace) \o Ellipsis
                  ELSE substring(searchArea, 0, maxLength) \o Ellipsis

smartTruncate(text, maxLength) ==
    IF Len(text) <= maxLength THEN text
    ELSE LET searchArea == substring(text, 0, maxLength)
             lastSentenceEnd == SetMax({lastIndexOf(searchArea, "."),
                                        lastIndexOf(searchArea, "!"),
                                        lastIndexOf(searchArea, "?")})
             lastSpace == lastIndexOf(searchArea, " ")
         IN  IF lastSentenceEnd > 0
             THEN substring(searchArea, 0, lastSentenceEnd + 1)
             ELSE IF lastSpace > 0
                  THEN substring(searchArea, 0, lastSpace) \o Ellipsis
                  ELSE substring(searchArea, 0, maxLength) \o Ellipsis

(***************************************************************************)
(* Values.                                                                 *)
(***************************************************************************)
\* a message: the template of the source that produced it (id), a prefix
\* put before it by a catch block (pre), the upstream text it carries
\* (text) and the numbers interpolated into it (nums)
Msg(id, text, nums) == [pre |-> "", id |-> id, text |-> text, nums |-> nums]

\* the JavaScript null of error, warning and generationStatus
Null == Msg("null", <<>>, <<>>)

Story == "story"
Prayer == "prayer"

\* upstream error messages
M_503 == <<"5", "0", "3">>
M_Overloaded == <<"O", "v", "e", "r", "L", "O", "A", "D", "E", "D">>
M_Quota == <<"4", "2", "9">>
M_Empty == <<>>

UpstreamError(message, status) == [message |-> message, causeStatus |-> status]

\* the upstream failures tried when a service function is called directly
AllErrors ==
    {UpstreamError(M_503, "NONE"), UpstreamError(M_Overloaded, "NONE"),
     UpstreamError(M_Quota, "UNAVAILABLE"), UpstreamError(M_Quota, "NONE"),
     UpstreamError(M_Empty, "NONE")}

\* the upstream failures tried when a handler of the App calls it
AppErrors == {UpstreamError(M_503, "NONE"), UpstreamError(M_Quota, "NONE")}

\* generated texts: below every window, inside the window of target 1, and
\* above it with a sentence end, with a late space, and with neither; the
\* upstream service answers with the first two, the third or the last
ShortText == Pad(50)
InRangeText == Pad(300)
LongSentence == Pad(300) \o <<".">> \o Pad(209)
LongSpace == Pad(499) \o <<" ">> \o Pad(10)
LongHard == Pad(510)

ContentTexts == {ShortText, InRangeText, LongSentence, LongHard}

EmptyBundle ==
    [content |-> <<>>, titles |-> <<>>, description |-> <<>>, tags |-> <<>>,
     cta |-> <<>>, thumbnailPrompt |-> <<>>]

Bundle(content) ==
    [content |-> content, titles |-> <<<<"t", "1">>, <<"t", "2">>>>,
     description |-> <<"d">>, tags |-> <<<<"g", "1">>>>, cta |-> <<"c">>,
     thumbnailPrompt |-> <<"i", "m", "g">>]

\* the text of an upstream response.  In text mode only chars is used.  In
\* JSON mode the text is a document: code-fence markers or not around a
\* body that is no JSON ("garbage") or the JSON text of an array of strings
\* (items), of a bundle object (fields), of another object, or of a string,
\* a number or null; chars is then the text of the body
Response(chars, fence, json, items, fields) ==
    [chars |-> chars, fence |-> fence, json |-> json, items |-> items,
     fields |-> fields]

TextResponse(chars) == Response(chars, FALSE, "text", <<>>, EmptyBundle)
JsonGarbage(fence) == Response(<<>>, fence, "garbage", <<>>, EmptyBundle)
JsonArray(fence, items) == Response(<<>>, fence, "array", items, EmptyBundle)
JsonBundle(fence, b) == Response(<<>>, fence, "bundle", <<>>, b)
JsonOtherObject(fence) == Response(<<"{", "}">>, fence, "object", <<>>, EmptyBundle)
JsonString(fence) ==
    Response(<<"\"", "n", "o", "\"">>, fence, "string", <<>>, EmptyBundle)
JsonNumber(fence) == Response(<<"7">>, fence, "number", <<>>, EmptyBundle)
JsonNull(fence) == Response(<<"n", "u", "l", "l">>, fence, "null", <<>>, EmptyBundle)
NoResponse == Response(<<>>, FALSE, "none", <<>>, EmptyBundle)

\* a JSON string where the schema asks for an array of strings
NotAList == <<"n", "o", "t">>

\* Array.isArray(v), over the values an upstream answer can hold there
IsList(v) == v \notin {NotAList}

TextOps == {"enhanceStoryPrompt", "generateContent", "refineTextLength",
            "generateDescription", "generateCta", "generateThumbnailPrompt"}
ListOps == {"generateTitles", "generateTags"}
ServiceOps == TextOps \cup ListOps \cup {"generateAllContent"}

\* what the upstream service may answer to a request of operation op
Responses(op) ==
    IF op \in {"generateContent", "refineTextLength"}
    THEN {TextResponse(t) : t \in ContentTexts}
    ELSE IF op = "enhanceStoryPrompt"
    THEN {TextResponse(<<"i", "d", "e", "a", "+">>)}
    ELSE IF op \in TextOps
    THEN {TextResponse(<<"n", "e", "w">>)}
    ELSE IF op \in ListOps
    THEN {JsonArray(FALSE, <<<<"x">>, <<"y">>>>), JsonArray(TRUE, <<<<"x">>>>),
          JsonOtherObject(FALSE), JsonString(FALSE), JsonNumber(TRUE),
          JsonNull(FALSE), JsonGarbage(FALSE), JsonGarbage(TRUE)}
    ELSE {JsonBundle(FALSE, Bundle(t)) : t \in ContentTexts}
         \cup {JsonBundle(TRUE, Bundle(InRangeText)), JsonGarbage(FALSE),
               JsonBundle(FALSE, [Bundle(InRangeText) EXCEPT !.titles = NotAList])}

\* the answers of the upstream service to the App in a session
SessionResponses(op) ==
    IF op \in {"generateContent", "refineTextLength"}
    THEN {TextResponse(InRangeText), TextResponse(LongHard)}
    ELSE IF op \in TextOps
    THEN Responses(op)
    ELSE IF op \in ListOps
    THEN {JsonArray(FALSE, <<<<"x">>, <<"y">>>>), JsonNull(FALSE), JsonGarbage(TRUE)}
    ELSE {JsonBundle(FALSE, Bundle(InRangeText)), JsonBundle(TRUE, Bundle(LongHard)),
          JsonBundle(FALSE, [Bundle(InRangeText) EXCEPT !.titles = NotAList]),
          JsonGarbage(FALSE)}

(***************************************************************************)
(* The service layer (services/geminiService).                             *)
(***************************************************************************)
\* mutant: no guard on the API key
getAi_unguarded(key) == FALSE

\* getAi: the guard on the API key
getAi_throws(key) == key = ""

KeyRequired == Msg("A chave de API do Gemini e necessaria.", <<>>, <<>>)
NotJson == Msg("A resposta da IA nao estava no formato JSON esperado.", <<>>, <<>>)
Overloaded == Msg("O modelo parece estar sobrecarregado.", <<>>, <<>>)
UnknownApiError == Msg("Ocorreu um erro desconhecido na API.", <<>>, <<>>)
Upstream(text) == Msg("upstream", text, <<>>)

\* getText
getText(response) == response.chars

\* getJson: strip the fence markers, trim, JSON.parse
\* mutant: a text that is no JSON is let through
getJson_lenient(response) == FALSE

getJson_throws(response) ==
    response.json \notin {"array", "bundle", "object", "string", "number", "null"}

\* generateWithRetry, the classification of a failure
isOverloaded(e) ==
    \/ includes(e.message, M_503)
    \/ includes(toLowerCase(e.message),
                <<"o", "v", "e", "r", "l", "o", "a", "d", "e", "d">>)
    \/ e.causeStatus = "UNAVAILABLE"

\* mutant: the backoff starts at one second
backoffDelay_fromOne(attempt) == BACKOFF_BASE ^ attempt

\* mutant: the wait grows by two seconds a retry instead of doubling
backoffDelay_linear(attempt) == BACKOFF_BASE * (attempt + 1)

\* generateWithRetry, the wait before the retry after attempt, in seconds
backoffDelay(attempt) == BACKOFF_BASE ^ (attempt + 1)

\* generateWithRetry, the message of the error thrown at the end
finalMessage(e) ==
    IF isOverloaded(e) THEN Overloaded
    ELSE IF e.message # <<>> THEN Upstream(e.message) ELSE UnknownApiError

\* mutant: the window has no floor of 100 characters
minCharsOf_noFloor(params) == params.characterCount - WINDOW_MARGIN

minCharsOf(params) == Max2(MIN_FLOOR, params.characterCount - WINDOW_MARGIN)
maxCharsOf(params) == params.characterCount + WINDOW_MARGIN

\* the values a prompt embeds
\* mutant: refineTextLength compares the text with the target count
Request_byTarget(op, params, textToEdit, modification) ==
    [op |-> op, params |-> params, modification |-> modification,
     textLength |-> Len(textToEdit),
     task |-> IF op # "refineTextLength" THEN "none"
              ELSE IF Len(textToEdit) > params.characterCount THEN "RESUMIR"
              ELSE "EXPANDIR",
     minChars |-> minCharsOf(params), maxChars |-> maxCharsOf(params)]

Request(op, params, textToEdit, modification) ==
    [op |-> op, params |-> params, modification |-> modification,
     textLength |-> Len(textToEdit),
     task |-> IF op # "refineTextLength" THEN "none"
              ELSE IF Len(textToEdit) > maxCharsOf(params) THEN "RESUMIR"
              ELSE "EXPANDIR",
     minChars |-> minCharsOf(params), maxChars |-> maxCharsOf(params)]

NoRequest ==
    [op |-> "none", params |-> <<>>, modification |-> <<>>, textLength |-> 0,
     task |-> "none", minChars |-> 0, maxChars |-> 0]

\* the state of one call of a service function: where it stands, the
\* request it sends, the attempt of generateWithRetry, the apiCall
\* invocations made, the errors they threw, the waits and status callbacks
\* so far, the response it received, and its result or the error it threw
IdleCall ==
    [state |-> "idle", op |-> "none", req |-> NoRequest, callback |-> FALSE,
     attempt |-> 0, calls |-> 0, errors |-> <<>>, waits |-> <<>>,
     statuses |-> <<>>, response |-> NoResponse, result |-> <<>>, err |-> Null]

\* a service function from its entry to its first await
enterService(op, key, params, textToEdit, modification, callback) ==
    LET c == [IdleCall EXCEPT !.op = op, !.callback = callback]
    IN  IF getAi_throws(key)
        THEN [c EXCEPT !.state = "threw", !.err = KeyRequired]
        ELSE IF op = "enhanceStoryPrompt" /\ params.creationType # Story
        THEN [c EXCEPT !.state = "returned", !.result = params.mainPrompt]
        ELSE [c EXCEPT !.state = "calling", !.calls = 1,
                       !.req = Request(op, params, textToEdit, modification)]

\* mutant: a list operation hands on whatever was parsed
decode_noArrayCheck(c, response) ==
    LET c0 == [c EXCEPT !.response = response]
    IN  IF c.op \in TextOps
        THEN [c0 EXCEPT !.state = "returned", !.result = getText(response)]
        ELSE IF getJson_throws(response)
        THEN [c0 EXCEPT !.state = "threw", !.err = NotJson]
        ELSE IF c.op \in ListOps
        THEN [c0 EXCEPT !.state = "returned",
                        !.result = IF response.json = "array" THEN response.items
                                   ELSE response.chars]
        ELSE [c0 EXCEPT !.state = "returned", !.result = response.fields]

\* a service function from the resolution of apiCall to its return
decode(c, response) ==
    LET c0 == [c EXCEPT !.response = response]
    IN  IF c.op \in TextOps
        THEN [c0 EXCEPT !.state = "returned", !.result = getText(response)]
        ELSE IF getJson_throws(response)
        THEN [c0 EXCEPT !.state = "threw", !.err = NotJson]
        ELSE IF c.op \in ListOps
        THEN [c0 EXCEPT !.state = "returned",
                        !.result = IF response.json = "array" THEN response.items
                                   ELSE <<>>]
        ELSE [c0 EXCEPT !.state = "returned", !.result = response.fields]

\* mutant: every failure is retried while the budget lasts
afterReject_retryAll(c, e) ==
    LET c1 == [c EXCEPT !.errors = Append(@, e)]
    IN  IF c.attempt < MAX_RETRIES
        THEN [c1 EXCEPT !.state = "waiting",
                        !.waits = Append(@, backoffDelay(c.attempt)),
                        !.statuses = IF c.callback
                                     THEN Append(@, <<backoffDelay(c.attempt),
                                                      c.attempt + 1, MAX_RETRIES>>)
                                     ELSE @]
        ELSE [c1 EXCEPT !.state = "threw", !.err = finalMessage(e)]

\* generateWithRetry, the catch block
\* mutant: one more retry than MAX_RETRIES
afterReject_oneMore(c, e) ==
    LET c1 == [c EXCEPT !.errors = Append(@, e)]
    IN  IF isOverloaded(e) /\ c.attempt <= MAX_RETRIES
        THEN [c1 EXCEPT !.state = "waiting",
                        !.waits = Append(@, backoffDelay(c.attempt)),
                        !.statuses = IF c.callback
                                     THEN Append(@, <<backoffDelay(c.attempt),
                                                      c.attempt + 1, MAX_RETRIES>>)
                                     ELSE @]
        ELSE [c1 EXCEPT !.state = "threw", !.err = finalMessage(e)]

\* mutant: the status callback is called on every overloaded failure, the
\* last one included
afterReject_statusOnFailure(c, e) ==
    LET c1 == [c EXCEPT !.errors = Append(@, e)]
        c2 == [c1 EXCEPT !.statuses = IF c.callback /\ isOverloaded(e)
                                      THEN Append(@, <<backoffDelay(c.attempt),
                                                       c.attempt + 1, MAX_RETRIES>>)
                                      ELSE @]
    IN  IF isOverloaded(e) /\ c.attempt < MAX_RETRIES
        THEN [c2 EXCEPT !.state = "waiting",
                        !.waits = Append(@, backoffDelay(c.attempt))]
        ELSE [c2 EXCEPT !.state = "threw", !.err = finalMessage(e)]

afterReject(c, e) ==
    LET c1 == [c EXCEPT !.errors = Append(@, e)]
    IN  IF isOverloaded(e) /\ c.attempt < MAX_RETRIES
        THEN [c1 EXCEPT !.state = "waiting",
                        !.waits = Append(@, backoffDelay(c.attempt)),
                        !.statuses = IF c.callback
                                     THEN Append(@, <<backoffDelay(c.attempt),
                                                      c.attempt + 1, MAX_RETRIES>>)
                                     ELSE @]
        ELSE [c1 EXCEPT !.state = "threw", !.err = finalMessage(e)]

\* mutant: the loop counter advances by two
afterWait_skipsOne(c) ==
    [c EXCEPT !.state = "calling", !.attempt = @ + 2, !.calls = @ + 1]

\* generateWithRetry, the next turn of the loop once the wait is over
afterWait(c) ==
    [c EXCEPT !.state = "calling", !.attempt = @ + 1, !.calls = @ + 1]

(***************************************************************************)
(* The state.                                                              *)
(*   app    the React state of the App component                           *)
(*   act    the locals of the handler that is running or has just ended    *)
(*   svc    the service call that handler (or a direct caller) awaits      *)
(*   now    Date.now()                                                     *)
(*   started, edits   how many actions were started, inputs edited         *)
(*   trunc  the argument and results of smartTruncate applied on its own   *)
(*   localStorage   the item 'generationHistory' of the browser's store     *)
(*   mount  where the effects of the first render stand                     *)
(***************************************************************************)
VARIABLES app, act, svc, now, started, edits, trunc, localStorage, mount

vars == <<app, act, svc, now, started, edits, trunc, localStorage, mount>>

NullId == 0
NoField == "none"
RegenerationFields == {"titles", "description", "tags", "thumbnail", "content", "cta"}

EmptyText == <<>>
Idea == <<"i", "d", "e", "a">>

\* the state after construction, with the API key k found in localStorage
InitialApp(k) ==
    [apiKey |-> k,
     creationName |-> EmptyText, creationType |-> Story,
     mainPrompt |-> EmptyText, titlePrompt |-> EmptyText,
     descriptionPrompt |-> EmptyText, thumbnailPrompt |-> EmptyText,
     characterCount |-> DEFAULT_CHARACTER_COUNT, language |-> "pt-BR",
     generatedTitles |-> <<>>, generatedDescription |-> EmptyText,
     generatedTags |-> <<>>, generatedThumbnailPrompt |-> EmptyText,
     generatedContent |-> EmptyText, generatedCta |-> EmptyText,
     isGenerating |-> FALSE, generationStatus |-> Null, isEnhancing |-> FALSE,
     regeneratingField |-> NoField, error |-> Null, warning |-> Null,
     regenModalField |-> NoField, regenModificationPrompt |-> EmptyText,
     history |-> <<>>, currentCreationId |-> NullId]

\* the six displayed artifact fields
artifacts(a) ==
    <<a.generatedTitles, a.generatedDescription, a.generatedTags,
      a.generatedThumbnailPrompt, a.generatedContent, a.generatedCta>>

\* the artifacts, the history and the current creation
committed(a) == <<artifacts(a), a.history, a.currentCreationId>>

getGenerationParams(a) ==
    [creationName |-> a.creationName, creationType |-> a.creationType,
     mainPrompt |-> a.mainPrompt, titlePrompt |-> a.titlePrompt,
     descriptionPrompt |-> a.descriptionPrompt,
     thumbnailPrompt |-> a.thumbnailPrompt,
     characterCount |-> a.characterCount, language |-> a.language]

\* the locals and closure of a handler: what it captured when it was
\* invoked (apiKey, params, currentCreationId, the field and the
\* modification of a regeneration; the App passes no status callback to
\* the service functions), the text and bundle it works on, the texts its
\* refinement loop was handed in turn (contents), its
\* loop counter, and what it has done: the service calls it made, those to
\* refineTextLength, the upstream requests sent and those that failed;
\* atStart keeps what was committed when the handler was invoked
IdleAct ==
    [name |-> "none", pc |-> "idle", apiKey |-> "",
     params |-> getGenerationParams(InitialApp("")), cid |-> NullId,
     field |-> NoField, modification |-> EmptyText,
     allContent |-> EmptyBundle, text |-> EmptyText,
     refinementAttempts |-> 0, minChars |-> 0, maxChars |-> 0,
     serviceCalls |-> 0, refineCalls |-> 0, requests |-> 0, failures |-> 0,
     interleaved |-> 0, callback |-> FALSE, contents |-> <<>>,
     atStart |-> committed(InitialApp(""))]

World == [app |-> app, act |-> act, svc |-> svc]

\* mutant: the inputs are read when the call is made
callService_liveInputs(w, op, textToEdit, modification) ==
    LET c == enterService(op, w.act.apiKey, getGenerationParams(w.app), textToEdit,
                          modification, w.act.callback)
    IN  [w EXCEPT !.svc = c,
                  !.act.pc = "await",
                  !.act.serviceCalls = @ + 1,
                  !.act.refineCalls = @ + (IF op = "refineTextLength" THEN 1 ELSE 0),
                  !.act.requests = @ + c.calls]

\* a handler calls a service function: the call runs to its first await
callService(w, op, textToEdit, modification) ==
    LET c == enterService(op, w.act.apiKey, w.act.params, textToEdit,
                          modification, w.act.callback)
    IN  [w EXCEPT !.svc = c,
                  !.act.pc = "await",
                  !.act.serviceCalls = @ + 1,
                  !.act.refineCalls = @ + (IF op = "refineTextLength" THEN 1 ELSE 0),
                  !.act.requests = @ + c.calls]

outOfRange(len, minChars, maxChars) == len < minChars \/ len > maxChars

(***************************************************************************)
(* handleGenerateAll.                                                      *)
(***************************************************************************)
NeedKey == Msg("Por favor, insira e salve sua chave de API do Gemini.", <<>>, <<>>)
NeedIdea == Msg("Por favor, insira a ideia principal para a geracao.", <<>>, <<>>)
GeneratingAll == Msg("Gerando todo o conteudo...", <<>>, <<>>)
Progress(attempt, task) ==
    Msg("Tentativa n/m: Conteudo fora do alvo.", task, <<attempt, MAX_REFINEMENT_ATTEMPTS>>)
Truncated(originalLength) ==
    Msg("A IA nao conseguiu ajustar o texto; ajustado automaticamente.", <<>>,
        <<MAX_REFINEMENT_ATTEMPTS, originalLength>>)
TooShort(minChars, maxChars, len) ==
    Msg("A IA nao conseguiu refinar o conteudo para a faixa desejada.", <<>>,
        <<minChars, maxChars, len>>)
Refined(attempts) ==
    Msg("O conteudo foi refinado pela IA em n tentativa(s).", <<>>, <<attempts>>)

Resumindo == <<"R", "e", "s", "u", "m", "i", "n", "d", "o">>
Expandindo == <<"E", "x", "p", "a", "n", "d", "i", "n", "d", "o">>

\* the finally block
GenerateAll_finally(w) ==
    [w EXCEPT !.app.isGenerating = FALSE, !.app.generationStatus = Null]

\* mutant: a thrown error skips the finally block
GenerateAll_catch_noFinally(w) ==
    [w EXCEPT !.app.error = w.svc.err, !.act.pc = "caught"]

\* the catch block
GenerateAll_catch(w) ==
    GenerateAll_finally([w EXCEPT !.app.error = w.svc.err, !.act.pc = "caught"])

\* the outcome of the refinement: the message and the text to commit
\* mutant: the warning reports the attempt budget, not the attempts made
GenerateAll_outcome_reportsBudget(w) ==
    LET len == Len(w.act.text)
        lo == w.act.minChars
        hi == w.act.maxChars
    IN  IF outOfRange(len, lo, hi)
        THEN IF len > hi
             THEN [w EXCEPT !.act.allContent.content = smartTruncate(w.act.text, hi),
                            !.app.warning = Truncated(len)]
             ELSE [w EXCEPT !.app.error = TooShort(lo, hi, len)]
        ELSE IF w.act.refinementAttempts > 0
             THEN [w EXCEPT !.app.warning = Refined(MAX_REFINEMENT_ATTEMPTS)]
             ELSE w

\* mutant: an overlong text is committed as it is
GenerateAll_outcome_noTruncate(w) ==
    LET len == Len(w.act.text)
        lo == w.act.minChars
        hi == w.act.maxChars
    IN  IF outOfRange(len, lo, hi)
        THEN IF len > hi
             THEN [w EXCEPT !.app.warning = Truncated(len)]
             ELSE [w EXCEPT !.app.error = TooShort(lo, hi, len)]
        ELSE IF w.act.refinementAttempts > 0
             THEN [w EXCEPT !.app.warning = Refined(w.act.refinementAttempts)]
             ELSE w

GenerateAll_outcome(w) ==
    LET len == Len(w.act.text)
        lo == w.act.minChars
        hi == w.act.maxChars
    IN  IF outOfRange(len, lo, hi)
        THEN IF len > hi
             THEN [w EXCEPT !.act.allContent.content = smartTruncate(w.act.text, hi),
                            !.app.warning = Truncated(len)]
             ELSE [w EXCEPT !.app.error = TooShort(lo, hi, len)]
        ELSE IF w.act.refinementAttempts > 0
             THEN [w EXCEPT !.app.warning = Refined(w.act.refinementAttempts)]
             ELSE w

\* mutant: the new record is always put at the head
upsert_prepends(prevHistory, newCreation) == <<newCreation>> \o prevHistory

\* setHistory(prevHistory => ...): replace the record with the id, or prepend
upsert(prevHistory, newCreation) ==
    LET found == {i \in 1..Len(prevHistory) : prevHistory[i].id = newCreation.id}
    IN  IF found # {}
        THEN [prevHistory EXCEPT ![CHOOSE i \in found : \A j \in found : i <= j] = newCreation]
        ELSE <<newCreation>> \o prevHistory

\* { id, timestamp, ...params, ...allContent }
Creation(id, timestamp, params, allContent) ==
    [id |-> id, timestamp |-> timestamp,
     creationName |-> params.creationName, creationType |-> params.creationType,
     mainPrompt |-> params.mainPrompt, titlePrompt |-> params.titlePrompt,
     descriptionPrompt |-> params.descriptionPrompt,
     characterCount |-> params.characterCount, language |-> params.language,
     content |-> allContent.content, titles |-> allContent.titles,
     description |-> allContent.description, tags |-> allContent.tags,
     cta |-> allContent.cta, thumbnailPrompt |-> allContent.thumbnailPrompt]

\* mutant: the refined text is committed as the description as well
GenerateAll_finish_allFields(w, t) ==
    LET w1 == [w EXCEPT !.act.allContent.content = w.act.text,
                        !.act.allContent.description = w.act.text,
                        !.app.error = Null, !.app.warning = Null]
        w2 == GenerateAll_outcome(w1)
        all == w2.act.allContent
        newCreation == Creation(IF w.act.cid # NullId THEN w.act.cid ELSE t,
                                t, w.act.params, all)
    IN  GenerateAll_finally(
          [w2 EXCEPT !.act.pc = "done",
                     !.app.generatedContent = all.content,
                     !.app.generatedTitles = all.titles,
                     !.app.generatedDescription = all.description,
                     !.app.generatedTags = all.tags,
                     !.app.generatedCta = all.cta,
                     !.app.generatedThumbnailPrompt = all.thumbnailPrompt,
                     !.app.history = upsert(w.app.history, newCreation),
                     !.app.currentCreationId = newCreation.id])

\* from the end of the refinement loop to the end of the handler
GenerateAll_finish(w, t) ==
    LET w1 == [w EXCEPT !.act.allContent.content = w.act.text,
                        !.app.error = Null, !.app.warning = Null]
        w2 == GenerateAll_outcome(w1)
        all == w2.act.allContent
        newCreation == Creation(IF w.act.cid # NullId THEN w.act.cid ELSE t,
                                t, w.act.params, all)
    IN  GenerateAll_finally(
          [w2 EXCEPT !.act.pc = "done",
                     !.app.generatedContent = all.content,
                     !.app.generatedTitles = all.titles,
                     !.app.generatedDescription = all.description,
                     !.app.generatedTags = all.tags,
                     !.app.generatedCta = all.cta,
                     !.app.generatedThumbnailPrompt = all.thumbnailPrompt,
                     !.app.history = upsert(w.app.history, newCreation),
                     !.app.currentCreationId = newCreation.id])

\* the refinement loop, from its test to the next await or to the end
\* mutant: the loop has no attempt budget
GenerateAll_loop_unbounded(w, t) ==
    LET text == w.act.text
    IN  IF outOfRange(Len(text), w.act.minChars, w.act.maxChars)
        THEN LET isTooLong == Len(text) > w.act.maxChars
                 w1 == [w EXCEPT !.act.refinementAttempts = @ + 1,
                                 !.app.generationStatus =
                                     Progress(w.act.refinementAttempts + 1,
                                              IF isTooLong THEN Resumindo ELSE Expandindo)]
                 w2 == callService(w1, "refineTextLength", text, EmptyText)
             IN  IF w2.svc.state = "threw" THEN GenerateAll_catch(w2) ELSE w2
        ELSE GenerateAll_finish(w, t)

\* mutant: a text inside the window is refined all the same
GenerateAll_loop_always(w, t) ==
    LET text == w.act.text
    IN  IF w.act.refinementAttempts < MAX_REFINEMENT_ATTEMPTS
        THEN LET isTooLong == Len(text) > w.act.maxChars
                 w1 == [w EXCEPT !.act.refinementAttempts = @ + 1,
                                 !.app.generationStatus =
                                     Progress(w.act.refinementAttempts + 1,
                                              IF isTooLong THEN Resumindo ELSE Expandindo)]
                 w2 == callService(w1, "refineTextLength", text, EmptyText)
             IN  IF w2.svc.state = "threw" THEN GenerateAll_catch(w2) ELSE w2
        ELSE GenerateAll_finish(w, t)

GenerateAll_loop(w, t) ==
    LET text == w.act.text
    IN  IF /\ outOfRange(Len(text), w.act.minChars, w.act.maxChars)
           /\ w.act.refinementAttempts < MAX_REFINEMENT_ATTEMPTS
        THEN LET isTooLong == Len(text) > w.act.maxChars
                 w1 == [w EXCEPT !.act.refinementAttempts = @ + 1,
                                 !.app.generationStatus =
                                     Progress(w.act.refinementAttempts + 1,
                                              IF isTooLong THEN Resumindo ELSE Expandindo)]
                 w2 == callService(w1, "refineTextLength", text, EmptyText)
             IN  IF w2.svc.state = "threw" THEN GenerateAll_catch(w2) ELSE w2
        ELSE GenerateAll_finish(w, t)

\* the handler resumes when the service call it awaits has returned or thrown
GenerateAll_resume(w, t) ==
    IF w.svc.state = "threw" THEN GenerateAll_catch(w)
    ELSE IF w.svc.state # "returned" THEN w
    ELSE IF w.svc.op = "generateAllContent"
    THEN GenerateAll_loop(
           [w EXCEPT !.act.allContent = w.svc.result,
                     !.act.text = w.svc.result.content,
                     !.act.contents = <<w.svc.result.content>>,
                     !.act.minChars = minCharsOf(w.act.params),
                     !.act.maxChars = maxCharsOf(w.act.params)], t)
    ELSE GenerateAll_loop([w EXCEPT !.act.text = w.svc.result,
                                    !.act.contents = Append(@, w.svc.result)], t)

\* the handler from its invocation to its first await
handleGenerateAll(w, t) ==
    LET a == w.app
        fresh == [IdleAct EXCEPT !.name = "GenerateAll", !.pc = "returned",
                                 !.atStart = committed(a)]
    IN  IF a.apiKey = ""
        THEN [w EXCEPT !.app.error = NeedKey, !.act = fresh]
        ELSE IF a.mainPrompt = EmptyText
        THEN [w EXCEPT !.app.error = NeedIdea, !.act = fresh]
        ELSE LET a1 == [a EXCEPT !.isGenerating = TRUE, !.error = Null,
                                 !.warning = Null,
                                 !.generationStatus = GeneratingAll]
                 a2 == IF a.currentCreationId = NullId
                       THEN [a1 EXCEPT !.generatedTitles = <<>>,
                                       !.generatedDescription = EmptyText,
                                       !.generatedTags = <<>>,
                                       !.generatedThumbnailPrompt = EmptyText,
                                       !.generatedContent = EmptyText,
                                       !.generatedCta = EmptyText]
                       ELSE a1
                 w1 == [w EXCEPT !.app = a2,
                                 !.act = [fresh EXCEPT !.apiKey = a.apiKey,
                                                       !.params = getGenerationParams(a),
                                                       !.cid = a.currentCreationId]]
             IN  GenerateAll_resume(
                   callService(w1, "generateAllContent", EmptyText, EmptyText), t)

(***************************************************************************)
(* handleRegenerate.                                                       *)
(***************************************************************************)
NeedKeyToRegenerate ==
    Msg("Por favor, insira e salve sua chave de API do Gemini para regenerar.", <<>>, <<>>)
RegenProgress(attempt, task) ==
    Msg("Tentativa n/m: Conteudo regenerado fora do alvo.", task,
        <<attempt, MAX_REFINEMENT_ATTEMPTS>>)
RegenRefined(attempts) ==
    Msg("O conteudo regenerado foi refinado pela IA em n tentativa(s).", <<>>, <<attempts>>)

RegenOp(field) ==
    CASE field = "titles" -> "generateTitles"
      [] field = "description" -> "generateDescription"
      [] field = "tags" -> "generateTags"
      [] field = "thumbnail" -> "generateThumbnailPrompt"
      [] field = "content" -> "generateContent"
      [] field = "cta" -> "generateCta"

Regenerate_finally(w) ==
    [w EXCEPT !.app.regeneratingField = NoField,
              !.app.regenModificationPrompt = EmptyText]

\* mutant: the catch block empties the field that was to be regenerated
Regenerate_catch_clears(w) ==
    Regenerate_finally(
      [w EXCEPT !.app.error = [w.svc.err EXCEPT !.pre = "Erro ao regenerar: "],
                !.app.generatedContent = EmptyText,
                !.app.generatedDescription = EmptyText,
                !.act.pc = "caught"])

\* the catch block
Regenerate_catch(w) ==
    Regenerate_finally(
      [w EXCEPT !.app.error = [w.svc.err EXCEPT !.pre = "Erro ao regenerar: "],
                !.act.pc = "caught"])

\* case 'content', from the end of the refinement loop to the break
Regenerate_finish(w) ==
    LET len == Len(w.act.text)
        lo == w.act.minChars
        hi == w.act.maxChars
        w1 == [w EXCEPT !.app.error = Null, !.app.warning = Null]
        w2 == IF outOfRange(len, lo, hi)
              THEN IF len > hi
                   THEN [w1 EXCEPT !.act.text = smartTruncate(w.act.text, hi),
                                   !.app.warning = Truncated(len)]
                   ELSE [w1 EXCEPT !.app.error = TooShort(lo, hi, len)]
              ELSE IF w.act.refinementAttempts > 0
                   THEN [w1 EXCEPT !.app.warning = RegenRefined(w.act.refinementAttempts)]
                   ELSE w1
    IN  Regenerate_finally([w2 EXCEPT !.app.generatedContent = w2.act.text,
                                      !.act.pc = "done"])

\* mutant: the loop of case 'content' gives up after one attempt
Regenerate_loop_once(w) ==
    LET text == w.act.text
    IN  IF /\ outOfRange(Len(text), w.act.minChars, w.act.maxChars)
           /\ w.act.refinementAttempts < 1
        THEN LET isTooLong == Len(text) > w.act.maxChars
                 w1 == [w EXCEPT !.act.refinementAttempts = @ + 1,
                                 !.app.warning =
                                     RegenProgress(w.act.refinementAttempts + 1,
                                                   IF isTooLong THEN Resumindo ELSE Expandindo)]
                 w2 == callService(w1, "refineTextLength", text, EmptyText)
             IN  IF w2.svc.state = "threw" THEN Regenerate_catch(w2) ELSE w2
        ELSE Regenerate_finish(w)

\* case 'content', the refinement loop
Regenerate_loop(w) ==
    LET text == w.act.text
    IN  IF /\ outOfRange(Len(text), w.act.minChars, w.act.maxChars)
           /\ w.act.refinementAttempts < MAX_REFINEMENT_ATTEMPTS
        THEN LET isTooLong == Len(text) > w.act.maxChars
                 w1 == [w EXCEPT !.act.refinementAttempts = @ + 1,
                                 !.app.warning =
                                     RegenProgress(w.act.refinementAttempts + 1,
                                                   IF isTooLong THEN Resumindo ELSE Expandindo)]
                 w2 == callService(w1, "refineTextLength", text, EmptyText)
             IN  IF w2.svc.state = "threw" THEN Regenerate_catch(w2) ELSE w2
        ELSE Regenerate_finish(w)

Regenerate_resume(w) ==
    LET r == w.svc.result
    IN  IF w.svc.state = "threw" THEN Regenerate_catch(w)
        ELSE IF w.svc.state # "returned" THEN w
        ELSE IF w.svc.op = "generateTitles"
        THEN Regenerate_finally([w EXCEPT !.app.generatedTitles = r, !.act.pc = "done"])
        ELSE IF w.svc.op = "generateDescription"
        THEN Regenerate_finally([w EXCEPT !.app.generatedDescription = r, !.act.pc = "done"])
        ELSE IF w.svc.op = "generateTags"
        THEN Regenerate_finally([w EXCEPT !.app.generatedTags = r, !.act.pc = "done"])
        ELSE IF w.svc.op = "generateThumbnailPrompt"
        THEN Regenerate_finally([w EXCEPT !.app.generatedThumbnailPrompt = r, !.act.pc = "done"])
        ELSE IF w.svc.op = "generateCta"
        THEN Regenerate_finally([w EXCEPT !.app.generatedCta = r, !.act.pc = "done"])
        ELSE IF w.svc.op = "generateContent"
        THEN Regenerate_loop(
               [w EXCEPT !.act.text = r,
                         !.act.contents = <<r>>,
                         !.act.minChars = minCharsOf(w.act.params),
                         !.act.maxChars = maxCharsOf(w.act.params)])
        ELSE Regenerate_loop([w EXCEPT !.act.text = r,
                                       !.act.contents = Append(@, r)])

handleRegenerate(w) ==
    LET a == w.app
        fresh == [IdleAct EXCEPT !.name = "Regenerate", !.pc = "returned",
                                 !.atStart = committed(a)]
    IN  IF a.apiKey = ""
        THEN [w EXCEPT !.app.error = NeedKeyToRegenerate,
                       !.app.regenModalField = NoField, !.act = fresh]
        ELSE IF a.regenModalField = NoField
        THEN [w EXCEPT !.act = fresh]
        ELSE LET fieldToRegen == a.regenModalField
                 w1 == [w EXCEPT !.app.regeneratingField = fieldToRegen,
                                 !.app.regenModalField = NoField,
                                 !.app.error = Null, !.app.warning = Null,
                                 !.act = [fresh EXCEPT
                                            !.apiKey = a.apiKey,
                                            !.params = getGenerationParams(a),
                                            !.cid = a.currentCreationId,
                                            !.field = fieldToRegen,
                                            !.modification = a.regenModificationPrompt]]
             IN  Regenerate_resume(
                   callService(w1, RegenOp(fieldToRegen),
                               IF fieldToRegen = "thumbnail"
                               THEN a.generatedContent ELSE EmptyText,
                               a.regenModificationPrompt))

(***************************************************************************)
(* handleEnhancePrompt.                                                    *)
(***************************************************************************)
NeedIdeaToEnhance == Msg("Por favor, insira uma ideia para aprimorar.", <<>>, <<>>)

Enhance_finally(w) == [w EXCEPT !.app.isEnhancing = FALSE]

\* mutant: a longer idea is not taken over
Enhance_resume_checked(w) ==
    IF w.svc.state = "threw"
    THEN Enhance_finally(
           [w EXCEPT !.app.error = [w.svc.err EXCEPT !.pre = "Erro ao aprimorar ideia: "],
                     !.act.pc = "caught"])
    ELSE IF w.svc.state # "returned" THEN w
    ELSE Enhance_finally(
           [w EXCEPT !.app.mainPrompt = IF Len(w.svc.result) > Len(w.app.mainPrompt)
                                        THEN w.app.mainPrompt ELSE w.svc.result,
                     !.act.pc = "done"])

\* the handler resumes when enhanceStoryPrompt has returned or thrown
Enhance_resume(w) ==
    IF w.svc.state = "threw"
    THEN Enhance_finally(
           [w EXCEPT !.app.error = [w.svc.err EXCEPT !.pre = "Erro ao aprimorar ideia: "],
                     !.act.pc = "caught"])
    ELSE IF w.svc.state # "returned" THEN w
    ELSE Enhance_finally([w EXCEPT !.app.mainPrompt = w.svc.result, !.act.pc = "done"])

handleEnhancePrompt(w) ==
    LET a == w.app
        fresh == [IdleAct EXCEPT !.name = "Enhance", !.pc = "returned"]
    IN  IF a.apiKey = ""
        THEN [w EXCEPT !.app.error = NeedKey, !.act = fresh]
        ELSE IF a.mainPrompt = EmptyText
        THEN [w EXCEPT !.app.error = NeedIdeaToEnhance, !.act = fresh]
        ELSE LET w1 == [w EXCEPT !.app.isEnhancing = TRUE, !.app.error = Null,
                                 !.app.warning = Null,
                                 !.act = [fresh EXCEPT !.apiKey = a.apiKey,
                                                       !.params = getGenerationParams(a),
                                                       !.cid = a.currentCreationId]]
             IN  Enhance_resume(
                   callService(w1, "enhanceStoryPrompt", EmptyText, EmptyText))

(***************************************************************************)
(* The other handlers.                                                     *)
(***************************************************************************)
KeyMustNotBeEmpty == Msg("A chave de API nao pode estar vazia.", <<>>, <<>>)

\* handleApiKeySave with the trimmed input value
handleApiKeySave(a, trimmedKey) ==
    IF trimmedKey # ""
    THEN [a EXCEPT !.apiKey = trimmedKey, !.error = Null, !.warning = Null]
    ELSE [a EXCEPT !.error = KeyMustNotBeEmpty]

handleApiKeyRemove(a) == [a EXCEPT !.apiKey = ""]

handleNewProject(a) ==
    [a EXCEPT !.creationName = EmptyText, !.mainPrompt = EmptyText,
              !.titlePrompt = EmptyText, !.descriptionPrompt = EmptyText,
              !.thumbnailPrompt = EmptyText, !.generatedTitles = <<>>,
              !.generatedDescription = EmptyText, !.generatedTags = <<>>,
              !.generatedThumbnailPrompt = EmptyText,
              !.generatedContent = EmptyText, !.generatedCta = EmptyText,
              !.error = Null, !.warning = Null, !.currentCreationId = NullId]

\* history.find(c => c.id === id), and the setters on what was found
handleLoadCreation(a, id) ==
    LET found == {i \in 1..Len(a.history) : a.history[i].id = id}
        creationToLoad == a.history[CHOOSE i \in found : \A j \in found : i <= j]
    IN  IF found = {} THEN a
        ELSE [a EXCEPT !.creationName = creationToLoad.creationName,
                       !.creationType = creationToLoad.creationType,
                       !.mainPrompt = creationToLoad.mainPrompt,
                       !.titlePrompt = creationToLoad.titlePrompt,
                       !.descriptionPrompt = creationToLoad.descriptionPrompt,
                       !.thumbnailPrompt = creationToLoad.thumbnailPrompt,
                       !.characterCount = creationToLoad.characterCount,
                       !.language = creationToLoad.language,
                       !.generatedTitles = creationToLoad.titles,
                       !.generatedDescription = creationToLoad.description,
                       !.generatedTags = creationToLoad.tags,
                       !.generatedThumbnailPrompt = creationToLoad.thumbnailPrompt,
                       !.generatedContent = creationToLoad.content,
                       !.generatedCta = creationToLoad.cta,
                       !.currentCreationId = creationToLoad.id,
                       !.error = Null, !.warning = Null]

\* prev.filter(c => c.id !== id)
without(prev, id) == SelectSeq(prev, LAMBDA c : c.id # id)

\* the user confirmed the deletion
\* mutant: a deletion never resets the project
handleDeleteCreation_keepsCurrent(a, id) ==
    [a EXCEPT !.history = without(a.history, id)]

\* mutant: every deletion resets the project
handleDeleteCreation_alwaysResets(a, id) ==
    handleNewProject([a EXCEPT !.history = without(a.history, id)])

handleDeleteCreation(a, id) ==
    LET a1 == [a EXCEPT !.history = without(a.history, id)]
    IN  IF a.currentCreationId = id THEN handleNewProject(a1) ELSE a1

(***************************************************************************)
(* What the rendered page lets the user do.                                *)
(***************************************************************************)
isApiKeyMissing == app.apiKey = ""
isLoading == app.isGenerating \/ app.regeneratingField # NoField \/ app.isEnhancing
actionsDisabled == isLoading \/ isApiKeyMissing
\* the modal covers the page
modalOpen == app.regenModalField # NoField
\* an async handler is suspended at an await
inFlight == act.pc = "await"

\* the regenerate button of a result card is rendered and enabled
canOpenModal(field) ==
    /\ ~actionsDisabled
    /\ ~modalOpen
    /\ IF field = "titles" THEN Len(app.generatedTitles) > 0 ELSE TRUE

(***************************************************************************)
(* Steps.                                                                  *)
(***************************************************************************)
NoTrunc == [text |-> EmptyText, maxLength |-> 0, stage |-> 0,
            once |-> EmptyText, twice |-> EmptyText]

\* localStorage.getItem('generationHistory'): null, or the text written
NoItem == [json |-> "null", records |-> <<>>]

\* JSON.stringify and JSON.parse of the history
stringify(history) == [json |-> "array", records |-> history]
parse(item) == item.records

\* mutant: the save effect never removes the item
saveEffect_setOnly(item, history) ==
    IF Len(history) > 0 THEN stringify(history) ELSE item

\* the save effect: setItem, or removeItem when the history is empty
saveEffect(item, history) ==
    IF Len(history) > 0 THEN stringify(history) ELSE NoItem

\* the effects of the first render have run and the page is at rest
Settled(found) == [pc |-> "settled", found |-> found]

\* the render that follows a step: the save effect runs when the history
\* has changed
Rendered(a) ==
    /\ localStorage' = IF a.history # app.history
                       THEN saveEffect(localStorage, a.history) ELSE localStorage
    /\ mount' = mount

\* the page after its mount, with what the store held
Mounted == localStorage = saveEffect(NoItem, app.history) /\ mount = Settled(localStorage)

Take(w) ==
    /\ app' = w.app
    /\ act' = w.act
    /\ svc' = w.svc
    /\ Rendered(w.app)

\* the awaiting caller goes on in the same turn of the event loop
resume(w, t) ==
    CASE w.act.name = "GenerateAll" -> GenerateAll_resume(w, t)
      [] w.act.name = "Regenerate" -> Regenerate_resume(w)
      [] w.act.name = "Enhance" -> Enhance_resume(w)
      [] OTHER -> [w EXCEPT !.act.pc = IF w.svc.state \in {"returned", "threw"}
                                       THEN "done" ELSE "await"]

\* Date.now() does not go back
Clock == {now, now + 1}

\* the pending request is answered
ApiCallResolves(response) ==
    /\ inFlight
    /\ svc.state = "calling"
    /\ \E t \in Clock :
          /\ Take(resume([World EXCEPT !.svc = decode(svc, response)], t))
          /\ now' = IF act'.name = "GenerateAll" /\ act'.pc = "done" THEN t ELSE now
    /\ UNCHANGED <<started, edits, trunc>>

\* the pending request fails
ApiCallRejects(e) ==
    /\ inFlight
    /\ svc.state = "calling"
    /\ Take(resume([World EXCEPT !.svc = afterReject(svc, e),
                                 !.act.failures = @ + 1], now))
    /\ UNCHANGED <<now, started, edits, trunc>>

\* the backoff timer fires and apiCall is invoked again
BackoffElapsed ==
    /\ inFlight
    /\ svc.state = "waiting"
    /\ Take([World EXCEPT !.svc = afterWait(svc), !.act.requests = @ + 1])
    /\ UNCHANGED <<now, started, edits, trunc>>

\* the handlers, invoked; the call the last handler awaited is gone
Invoked == [World EXCEPT !.svc = IdleCall]

GenerateAll ==
    /\ started < MaxActions
    /\ Take(handleGenerateAll(Invoked, now))
    /\ started' = started + 1
    /\ UNCHANGED <<now, edits, trunc>>

Regenerate ==
    /\ started < MaxActions
    /\ Take(handleRegenerate(Invoked))
    /\ started' = started + 1
    /\ UNCHANGED <<now, edits, trunc>>

EnhancePrompt ==
    /\ started < MaxActions
    /\ Take(handleEnhancePrompt(Invoked))
    /\ started' = started + 1
    /\ UNCHANGED <<now, edits, trunc>>

\* a step of the user that runs no async handler; the locals of a handler
\* that has ended and the call it awaited last are gone by then
SetApp(a) ==
    /\ inFlight => act.interleaved < MaxInterleaved
    /\ app' = a
    /\ Rendered(a)
    /\ act' = IF inFlight THEN [act EXCEPT !.interleaved = @ + 1] ELSE IdleAct
    /\ svc' = IF inFlight THEN svc ELSE IdleCall
    /\ UNCHANGED <<now, started, trunc>>

\* the user's clicks and edits on the rendered page
ClickGenerate == ~actionsDisabled /\ ~modalOpen /\ GenerateAll

ClickEnhance ==
    ~actionsDisabled /\ ~modalOpen /\ app.creationType = Story /\ EnhancePrompt

OpenModal(field) ==
    /\ canOpenModal(field)
    /\ SetApp([app EXCEPT !.regenModalField = field])
    /\ UNCHANGED edits

ModalType(text) ==
    /\ modalOpen
    /\ edits < MaxEdits
    /\ app.regenModificationPrompt # text
    /\ SetApp([app EXCEPT !.regenModificationPrompt = text])
    /\ edits' = edits + 1

ModalCancel ==
    /\ modalOpen
    /\ SetApp([app EXCEPT !.regenModalField = NoField])
    /\ UNCHANGED edits

\* the model follows one handler at a time
ModalGerar == modalOpen /\ ~inFlight /\ Regenerate

\* the modal is a plain overlay: the Generate button behind it keeps the
\* keyboard focus order, and Enter or Space on it is a click
KeyGenerate == ~actionsDisabled /\ modalOpen /\ GenerateAll

CharacterCounts == {1, -460, DEFAULT_CHARACTER_COUNT}

EditInput(field, value) ==
    /\ ~isApiKeyMissing
    /\ ~modalOpen
    /\ edits < MaxEdits
    /\ app[field] # value
    /\ SetApp([app EXCEPT ![field] = value])
    /\ edits' = edits + 1

EditInputs ==
    \/ \E v \in {EmptyText, Idea} : EditInput("mainPrompt", v)
    \/ \E v \in CharacterCounts : EditInput("characterCount", v)
    \/ \E v \in {Story, Prayer} : EditInput("creationType", v)

ApiKeySave ==
    /\ ~modalOpen
    /\ edits < MaxEdits
    /\ \E trimmedKey \in {"", "k"} :
          SetApp(handleApiKeySave(app, trimmedKey))
    /\ edits' = edits + 1

ApiKeyRemove ==
    /\ ~modalOpen
    /\ ~isApiKeyMissing
    /\ edits < MaxEdits
    /\ SetApp(handleApiKeyRemove(app))
    /\ edits' = edits + 1

NewProject ==
    /\ ~modalOpen
    /\ app # handleNewProject(app)
    /\ SetApp(handleNewProject(app))
    /\ UNCHANGED edits

\* the entries of the history sidebar
ids(history) == {history[i].id : i \in 1..Len(history)}

LoadCreation(id) ==
    /\ ~modalOpen
    /\ edits < MaxEdits
    /\ id \in ids(app.history)
    /\ SetApp(handleLoadCreation(app, id))
    /\ edits' = edits + 1

DeleteCreation(id) ==
    /\ ~modalOpen
    /\ edits < MaxEdits
    /\ id \in ids(app.history)
    /\ SetApp(handleDeleteCreation(app, id))
    /\ edits' = edits + 1

Init ==
    /\ app \in {InitialApp(k) : k \in {"", "k"}}
    /\ act = IdleAct
    /\ svc = IdleCall
    /\ now = 1
    /\ started = 0
    /\ edits = 0
    /\ trunc = NoTrunc
    /\ Mounted

Next ==
    \/ ClickGenerate
    \/ ClickEnhance
    \/ \E f \in RegenerationFields : OpenModal(f)
    \/ ModalType(<<"m">>)
    \/ ModalCancel
    \/ ModalGerar
    \/ KeyGenerate
    \/ EditInputs
    \/ ApiKeySave
    \/ ApiKeyRemove
    \/ NewProject
    \/ \E r \in SessionResponses(svc.op) : ApiCallResolves(r)
    \/ \E e \in AppErrors : act.failures < MaxFailures /\ ApiCallRejects(e)
    \/ BackoffElapsed

Spec == Init /\ [][Next]_vars

(***************************************************************************)
(* The exported service functions and the handlers, each called once in a  *)
(* state the App can be in.                                                *)
(***************************************************************************)
\* nothing was called yet
uncalled == act.pc = "idle"

DirectCall(op, textToEdit, callback) ==
    /\ uncalled
    /\ ~modalOpen
    /\ Take(resume(callService([World EXCEPT !.act =
                                   [IdleAct EXCEPT !.name = "Service",
                                                   !.apiKey = app.apiKey,
                                                   !.params = getGenerationParams(app),
                                                   !.callback = callback]],
                               op, textToEdit, EmptyText), now))
    /\ UNCHANGED <<now, started, edits, trunc>>

DirectGenerateAll == uncalled /\ ~modalOpen /\ GenerateAll

DirectEnhance == uncalled /\ ~modalOpen /\ EnhancePrompt

DirectRegenerate == uncalled /\ Regenerate

DirectOpenModal(field) ==
    /\ uncalled
    /\ ~modalOpen
    /\ app' = [app EXCEPT !.regenModalField = field]
    /\ UNCHANGED <<act, svc, now, started, edits, trunc, localStorage, mount>>

\* the inputs as the user may have left them
Configured(k, idea, count, type) ==
    [InitialApp(k) EXCEPT !.mainPrompt = idea, !.characterCount = count,
                          !.creationType = type]

DirectInit ==
    /\ app \in {Configured(k, idea, count, type) :
                   k \in {"", "k"}, idea \in {EmptyText, Idea},
                   count \in CharacterCounts, type \in {Story, Prayer}}
    /\ act = IdleAct
    /\ svc = IdleCall
    /\ now = 1
    /\ started = 0
    /\ edits = 0
    /\ trunc = NoTrunc
    /\ Mounted

\* the text handed to the functions that take one
TextsToEdit(op) ==
    IF op = "refineTextLength" THEN {ShortText, LongHard}
    ELSE IF op = "generateThumbnailPrompt" THEN {InRangeText}
    ELSE {EmptyText}

UpstreamErrors == IF act.name = "Service" THEN AllErrors ELSE AppErrors

DirectNext ==
    \/ \E op \in ServiceOps, cb \in BOOLEAN :
          \E text \in TextsToEdit(op) : DirectCall(op, text, cb)
    \/ DirectGenerateAll
    \/ DirectEnhance
    \/ DirectRegenerate
    \/ \E f \in RegenerationFields : DirectOpenModal(f)
    \/ \E r \in Responses(svc.op) : ApiCallResolves(r)
    \/ \E e \in UpstreamErrors : ApiCallRejects(e)
    \/ BackoffElapsed

DirectSpec == DirectInit /\ [][DirectNext]_vars


\* every upstream call responds or fails, and every backoff timer fires
UpstreamStep ==
    \/ \E e \in UpstreamErrors : ApiCallRejects(e)
    \/ BackoffElapsed
    \/ \E r \in Responses(svc.op) : ApiCallResolves(r)

FairDirectSpec == DirectSpec /\ WF_vars(UpstreamStep)

(***************************************************************************)
(* A session that starts with a saved key and a saved history.             *)
(***************************************************************************)
\* what localStorage holds under 'generationHistory'
SavedParams == getGenerationParams(Configured("k", Idea, 1, Story))

SavedBundle(content) == [Bundle(content) EXCEPT !.description = <<"o", "l", "d">>]

SavedHistory ==
    <<Creation(2, 2, SavedParams, SavedBundle(InRangeText)),
      Creation(1, 1, SavedParams, SavedBundle(LongSentence))>>

SessionInit ==
    /\ app = [InitialApp("k") EXCEPT !.history = SavedHistory]
    /\ act = IdleAct
    /\ svc = IdleCall
    /\ now = 3
    /\ started = 0
    /\ edits = 0
    /\ trunc = NoTrunc
    /\ Mounted

SessionNext ==
    \/ ClickGenerate
    \/ \E f \in RegenerationFields : OpenModal(f)
    \/ ModalCancel
    \/ ModalGerar
    \/ EditInput("mainPrompt", Idea)
    \/ NewProject
    \/ \E id \in ids(app.history) : LoadCreation(id)
    \/ \E id \in ids(app.history) : DeleteCreation(id)
    \/ \E r \in SessionResponses(svc.op) : ApiCallResolves(r)
    \/ \E e \in AppErrors : act.failures < MaxFailures /\ ApiCallRejects(e)
    \/ BackoffElapsed

SessionSpec == SessionInit /\ [][SessionNext]_vars

(***************************************************************************)
(* The mount of the page: the load effect, the save effect, and the render *)
(* that the load effect asked for; then the session.                       *)
(***************************************************************************)
\* what the store may hold when the page is opened
StoredAtStart == {NoItem, stringify(SavedHistory), stringify(<<SavedHistory[2]>>)}

MountInit ==
    /\ app = InitialApp("k")
    /\ act = IdleAct
    /\ svc = IdleCall
    /\ now = 3
    /\ started = 0
    /\ edits = 0
    /\ trunc = NoTrunc
    /\ localStorage \in StoredAtStart
    /\ mount = [pc |-> "loadEffect", found |-> NoItem]

\* useEffect(..., []): getItem, and setHistory(JSON.parse(...)) is queued
LoadEffect ==
    /\ mount.pc = "loadEffect"
    /\ mount' = [pc |-> "saveEffect", found |-> localStorage]
    /\ UNCHANGED <<app, act, svc, now, started, edits, trunc, localStorage>>

\* useEffect(..., [history]) after the first render: the history is empty
MountSaveEffect ==
    /\ mount.pc = "saveEffect"
    /\ localStorage' = saveEffect(localStorage, app.history)
    /\ mount' = IF mount.found # NoItem THEN [mount EXCEPT !.pc = "rerender"]
                ELSE Settled(mount.found)
    /\ UNCHANGED <<app, act, svc, now, started, edits, trunc>>

\* the render with the history that was queued, and the save effect again
MountRerender ==
    /\ mount.pc = "rerender"
    /\ app' = [app EXCEPT !.history = parse(mount.found)]
    /\ localStorage' = saveEffect(localStorage, parse(mount.found))
    /\ mount' = Settled(mount.found)
    /\ UNCHANGED <<act, svc, now, started, edits, trunc>>

MountNext ==
    \/ LoadEffect
    \/ MountSaveEffect
    \/ MountRerender
    \/ /\ mount.pc = "settled"
       /\ \/ ClickGenerate
          \/ EditInput("mainPrompt", Idea)
          \/ NewProject
          \/ \E id \in ids(app.history) : LoadCreation(id)
          \/ \E id \in ids(app.history) : DeleteCreation(id)
          \/ \E r \in SessionResponses(svc.op) : ApiCallResolves(r)

MountSpec == MountInit /\ [][MountNext]_vars

(***************************************************************************)
(* smartTruncate on its own: applied to a text, then to its own result.    *)
(***************************************************************************)
TruncAlphabet == {"a", ".", " ", "!", "?"}

Texts(n) == UNION {[1..k -> TruncAlphabet] : k \in 0..n}

TruncateOnce ==
    /\ trunc.stage = 0
    /\ trunc' = [trunc EXCEPT !.stage = 1,
                              !.once = smartTruncate(trunc.text, trunc.maxLength)]
    /\ UNCHANGED <<app, act, svc, now, started, edits, localStorage, mount>>

TruncateAgain ==
    /\ trunc.stage = 1
    /\ trunc' = [trunc EXCEPT !.stage = 2,
                              !.twice = smartTruncate(trunc.once, trunc.maxLength)]
    /\ UNCHANGED <<app, act, svc, now, started, edits, localStorage, mount>>

TruncInit ==
    /\ trunc \in {[NoTrunc EXCEPT !.text = t, !.maxLength = n] :
                     t \in Texts(MaxLen), n \in 0..MaxLen}
    /\ app = InitialApp("")
    /\ act = IdleAct
    /\ svc = IdleCall
    /\ now = 1
    /\ started = 0
    /\ edits = 0
    /\ Mounted

TruncNext == TruncateOnce \/ TruncateAgain

TruncSpec == TruncInit /\ [][TruncNext]_vars

(***************************************************************************)
(* The retry wrapper.                                                      *)
(***************************************************************************)
AllOverloaded == \A i \in 1..Len(svc.errors) : isOverloaded(svc.errors[i])

\* the waits between the attempts, in seconds
Backoffs == <<2, 4, 8>>

\* C1: when every apiCall invocation fails as overloaded, generateWithRetry
\* makes at most MAX_RETRIES + 1 = 4 invocations, waits 2 s, 4 s and 8 s in
\* that order between them, and after the 4th failure throws the fixed
\* "overloaded" error; it gives up no earlier and never tries a 5th time.
C1_RetryBudget ==
    (svc.calls >= 1 /\ AllOverloaded) =>
        /\ svc.calls <= 4
        /\ svc.waits = SubSeq(Backoffs, 1, Len(svc.waits))
        /\ Len(svc.waits) = (IF Len(svc.errors) < 3 THEN Len(svc.errors) ELSE 3)
        /\ svc.calls \in {Len(svc.errors), Len(svc.errors) + 1}
        /\ Len(svc.errors) = 4 =>
              svc.state = "threw" /\ svc.err = Overloaded /\ svc.calls = 4
        /\ (svc.state = "threw" /\ Len(svc.errors) = svc.calls) =>
              svc.calls = 4

C1_Witness ==
    /\ act.name = "Service"
    /\ svc.state = "threw"
    /\ svc.calls = 4
    /\ Len(svc.errors) = 4
    /\ AllOverloaded
    /\ svc.waits = <<2, 4, 8>>
    /\ svc.err = Overloaded

lastError == svc.errors[Len(svc.errors)]

endedAtOnce ==
    /\ svc.state = "threw"
    /\ svc.calls = Len(svc.errors)
    /\ Len(svc.waits) = Len(svc.errors) - 1
    /\ Len(svc.statuses) = (IF svc.callback THEN Len(svc.errors) - 1 ELSE 0)

\* C2 as stated: a failure that is not classified as overloaded ends
\* generateWithRetry at once (no wait, no status callback, no further
\* apiCall invocation) and the error thrown carries the upstream error's
\* own message.
C2_UpstreamMessageAlways ==
    (svc.errors # <<>> /\ ~isOverloaded(lastError)) =>
        endedAtOnce /\ svc.err = Upstream(lastError.message)

\* C2: a failure that is not classified as overloaded ends generateWithRetry
\* at once, on whatever attempt it occurs (no wait, no status callback, no
\* further apiCall invocation); the error thrown carries the upstream
\* error's own message when that message is not empty, and the fixed
\* "unknown API error" message when it is empty.
C2_EndsAtOnce ==
    (svc.errors # <<>> /\ ~isOverloaded(lastError)) =>
        /\ endedAtOnce
        /\ svc.err = (IF lastError.message # <<>>
                      THEN Upstream(lastError.message)
                      ELSE UnknownApiError)

C2_Witness ==
    /\ act.name = "Service"
    /\ svc.callback
    /\ Len(svc.errors) = 3
    /\ ~isOverloaded(lastError)
    /\ svc.state = "threw"
    /\ svc.calls = 3
    /\ Len(svc.statuses) = 2
    /\ svc.err = Upstream(M_Quota)

(***************************************************************************)
(* The empty API key.                                                      *)
(***************************************************************************)
\* C3: with an empty API key, a service function that was called has thrown
\* the key-required error with no apiCall invocation, and a handler that was
\* invoked has set an error and returned with no service call, no apiCall
\* invocation and every loading flag down.
C3_EmptyKey ==
    (app.apiKey = "" /\ act.name # "none") =>
        /\ svc.calls = 0
        /\ act.requests = 0
        /\ act.name = "Service" =>
              svc.state = "threw" /\ svc.err = KeyRequired
        /\ act.name # "Service" =>
              /\ act.pc = "returned"
              /\ act.serviceCalls = 0
              /\ svc = IdleCall
              /\ app.error = (IF act.name = "Regenerate"
                              THEN NeedKeyToRegenerate ELSE NeedKey)
              /\ ~app.isGenerating
              /\ ~app.isEnhancing
              /\ app.regeneratingField = NoField

C3_Witness ==
    /\ app.apiKey = ""
    /\ act.name = "Service"
    /\ svc.op = "generateAllContent"
    /\ svc.state = "threw"
    /\ svc.err = KeyRequired
    /\ svc.calls = 0

(***************************************************************************)
(* The refinement loop of handleGenerateAll and of handleRegenerate on the *)
(* content.                                                                *)
(***************************************************************************)
inWindow(text) == ~outOfRange(Len(text), act.minChars, act.maxChars)

\* the text the loop ended with
lastContent == act.contents[Len(act.contents)]

\* the loop used up its attempts and the text is still outside the window
exhausted ==
    /\ act.pc = "done"
    /\ Len(act.contents) = MAX_REFINEMENT_ATTEMPTS + 1
    /\ ~inWindow(lastContent)

\* C4: the refinement loop calls refineTextLength at most R = 2 times, and a
\* handler that awaits a service call ends, by committing or by catching an
\* error, provided every upstream call responds or fails.
C4_LoopBounded ==
    /\ [](act.refineCalls <= 2)
    /\ (act.pc = "await") ~> (act.pc \in {"done", "caught"})

C4_Witness ==
    /\ act.name = "Regenerate"
    /\ act.pc = "done"
    /\ act.refineCalls = 2
    /\ Len(act.contents) = 3

\* C5: when the content generated first is inside the window, no
\* refineTextLength call is made, the handler ends with no warning and no
\* error, and that content is committed unchanged.
C5_InRangeAtFirst ==
    (act.contents # <<>> /\ inWindow(act.contents[1])) =>
        /\ act.refineCalls = 0
        /\ act.contents = <<act.contents[1]>>
        /\ act.pc = "done"
        /\ app.warning = Null
        /\ app.error = Null
        /\ app.generatedContent = act.contents[1]

C5_Witness ==
    /\ act.name = "GenerateAll"
    /\ act.pc = "done"
    /\ act.contents = <<InRangeText>>
    /\ app.generatedContent = InRangeText
    /\ act.serviceCalls = 1

\* C6: when the k-th refinement (1 <= k <= R) is the first text inside the
\* window, the loop stops after exactly k refineTextLength calls, the k-th
\* result is committed as it is, the "refined in k attempt(s)" warning
\* reports that k, and no error is set.
C6_RefinedInK ==
    \A k \in 1..2 :
        (/\ Len(act.contents) >= k + 1
         /\ \A j \in 1..k : ~inWindow(act.contents[j])
         /\ inWindow(act.contents[k + 1])) =>
            /\ act.refineCalls = k
            /\ Len(act.contents) = k + 1
            /\ act.pc = "done"
            /\ app.generatedContent = act.contents[k + 1]
            /\ app.warning = (IF act.name = "GenerateAll"
                              THEN Refined(k) ELSE RegenRefined(k))
            /\ app.error = Null

C6_Witness ==
    /\ act.name = "GenerateAll"
    /\ act.pc = "done"
    /\ act.refineCalls = 1
    /\ Len(act.contents) = 2
    /\ inWindow(act.contents[2])
    /\ app.generatedContent = act.contents[2]

\* C7: when the text is still longer than max after R = 2 refinements, the
\* handler does not fail: smartTruncate(text, max) is committed, the
\* fallback warning is set, error is null, and handleGenerateAll saves the
\* truncated text in the history record.
C7_OverlongFallback ==
    (Len(act.contents) = 3 /\ Len(lastContent) > act.maxChars) =>
        /\ act.pc = "done"
        /\ act.refineCalls = 2
        /\ app.generatedContent = smartTruncate(lastContent, act.maxChars)
        /\ app.warning = Truncated(Len(lastContent))
        /\ app.error = Null
        /\ act.name = "GenerateAll" =>
              /\ app.history # <<>>
              /\ app.history[1].id = app.currentCreationId
              /\ app.history[1].content = app.generatedContent

C7_Witness ==
    /\ act.name = "GenerateAll"
    /\ exhausted
    /\ lastContent = LongSentence
    /\ app.generatedContent # lastContent
    /\ app.history[1].content = app.generatedContent

\* C8 as stated: after the loop gave up on a text longer than max, the
\* content committed is at most max = characterCount + 500 long.
C8_CommittedWithinMax ==
    (exhausted /\ Len(lastContent) > act.maxChars) =>
        Len(app.generatedContent) <= act.params.characterCount + 500

\* C9 as stated: when the text is still shorter than min after R = 2
\* refinements, the error naming the window and the final length is set, no
\* warning is set, and the too-short text is committed.
C9_TooShortReported ==
    (exhausted /\ Len(lastContent) < act.minChars) =>
        /\ app.error = TooShort(act.minChars, act.maxChars, Len(lastContent))
        /\ app.warning = Null
        /\ app.generatedContent = lastContent

(***************************************************************************)
(* smartTruncate.                                                          *)
(***************************************************************************)
\* C10 as stated: smartTruncate(smartTruncate(t, n), n) = smartTruncate(t, n)
\* for every text t and bound n.
C10_Idempotent == trunc.stage = 2 => trunc.twice = trunc.once


\* C11: for every text t and bound n >= 0 the result of smartTruncate(t, n)
\* is at most n + 3 characters long, and a text of at most n characters is
\* returned as it is.
C11_LengthBound ==
    trunc.stage >= 1 =>
        /\ Len(trunc.once) <= trunc.maxLength + 3
        /\ Len(trunc.text) <= trunc.maxLength => trunc.once = trunc.text

C11_Witness ==
    /\ trunc.stage = 1
    /\ trunc.maxLength >= 1
    /\ Len(trunc.text) > trunc.maxLength
    /\ Len(trunc.once) = trunc.maxLength + 3

\* the first n characters of the text given to smartTruncate
TruncPrefix == SubSeq(trunc.text, 1, trunc.maxLength)

\* the 0-based index of the last character of TruncPrefix that is in S, or -1
lastIn(S) ==
    LET at == {i \in 1..Len(TruncPrefix) : TruncPrefix[i] \in S}
    IN  IF at = {} THEN -1 ELSE (CHOOSE m \in at : \A k \in at : k <= m) - 1

\* C12: for a text longer than n, with P its first n characters:
\* if the last '.', '!' or '?' of P is at index i > 0 the result is P[0..i]
\* with no ellipsis; otherwise, if the last space of P is at index j > 0,
\* it is P[0..j) followed by '...'; otherwise it is P followed by '...'.
C12_Cascade ==
    (trunc.stage >= 1 /\ Len(trunc.text) > trunc.maxLength) =>
        LET i == lastIn({".", "!", "?"})
            j == lastIn({" "})
        IN  trunc.once =
              (IF i > 0 THEN SubSeq(TruncPrefix, 1, i + 1)
               ELSE IF j > 0 THEN SubSeq(TruncPrefix, 1, j) \o <<".", ".", ".">>
               ELSE TruncPrefix \o <<".", ".", ".">>)

\* a sentence end at index 1 wins over the later space at index 2
C12_Witness ==
    /\ trunc.stage = 1
    /\ trunc.text = <<"a", "?", " ", "a">>
    /\ trunc.maxLength = 3
    /\ trunc.once = <<"a", "?">>


(***************************************************************************)
(* The acceptance window.                                                  *)
(***************************************************************************)
WindowOps == {"generateContent", "refineTextLength", "generateAllContent"}

\* C13: for every target count c >= 1 the window is min = max(100, c - 500)
\* and max = c + 500 with min <= max, and the requests of generateContent,
\* refineTextLength and generateAllContent state the same window as the
\* refinement loops of handleGenerateAll and handleRegenerate use.
C13_Window ==
    /\ act.pc = "idle" =>
          \A c \in 1..MaxCount :
              LET lo == minCharsOf([characterCount |-> c])
                  hi == maxCharsOf([characterCount |-> c])
              IN  /\ lo = (IF c - 500 > 100 THEN c - 500 ELSE 100)
                  /\ hi = c + 500
                  /\ lo <= hi
    /\ (svc.op \in WindowOps /\ svc.calls >= 1 /\ act.params.characterCount >= 1) =>
          LET c == act.params.characterCount
          IN  /\ svc.req.minChars = (IF c - 500 > 100 THEN c - 500 ELSE 100)
              /\ svc.req.maxChars = c + 500
              /\ svc.req.minChars <= svc.req.maxChars
              /\ act.contents # <<>> =>
                    /\ act.minChars = svc.req.minChars
                    /\ act.maxChars = svc.req.maxChars

C13_Witness ==
    /\ act.name = "GenerateAll"
    /\ act.params.characterCount = 1
    /\ svc.op = "refineTextLength"
    /\ svc.state = "calling"
    /\ svc.req.minChars = 100
    /\ svc.req.maxChars = 501
    /\ act.minChars = 100
    /\ act.maxChars = 501


JsonOps == ListOps \cup {"generateAllContent"}

\* the pending request of a JSON-mode operation is answered with a text
\* that is no JSON document once the fences are stripped
GarbageArrives ==
    /\ svc.state = "calling"
    /\ svc.op \in JsonOps
    /\ svc'.response # svc.response
    /\ svc'.response.json = "garbage"

\* C14: when the response to generateTitles, generateTags or
\* generateAllContent is not valid JSON after the code fences are stripped,
\* the operation throws the 'response not in expected format' error and
\* returns no value, and the action that called it shows that error and
\* commits no artifact field and no history record.
C14_DecodeError ==
    [][GarbageArrives =>
          /\ svc'.state = "threw"
          /\ svc'.err = NotJson
          /\ svc'.result = <<>>
          /\ act'.pc = "caught"
          /\ app'.error \in {NotJson, [NotJson EXCEPT !.pre = "Erro ao regenerar: "]}
          /\ committed(app') = committed(app)]_vars

C14_Witness ==
    /\ act.name = "Regenerate"
    /\ act.field = "titles"
    /\ act.pc = "caught"
    /\ svc.response = JsonGarbage(TRUE)
    /\ app.generatedTitles # <<>>
    /\ app.currentCreationId = 2
    /\ Len(app.history) = 2


\* C15: when the response to generateTitles or generateTags is valid JSON
\* but no array (an object, a string, a number or null), the operation
\* returns the empty sequence and throws no error.
C15_NotAnArray ==
    (svc.op \in ListOps /\ svc.response.json \in {"object", "string", "number", "null"}) =>
        /\ svc.state = "returned"
        /\ svc.result = <<>>
        /\ svc.err = Null

C15_Witness ==
    /\ svc.op = "generateTags"
    /\ svc.response = JsonNumber(TRUE)
    /\ svc.state = "returned"
    /\ svc.result = <<>>


\* C16: the titles and tags shown and those of every history record are
\* always sequences of strings: a bundle whose titles or tags is valid JSON
\* but no array is committed by GenerateAll with an empty sequence in its
\* place.
C16_AlwaysSequences ==
    /\ IsList(app.generatedTitles)
    /\ IsList(app.generatedTags)
    /\ \A i \in 1..Len(app.history) :
          IsList(app.history[i].titles) /\ IsList(app.history[i].tags)


\* the awaited call returns and handleGenerateAll runs to its end
GenerateAllCompletes ==
    /\ act.name = "GenerateAll"
    /\ act.pc = "await"
    /\ act'.pc = "done"

\* C17: a GenerateAll that succeeds upserts exactly one history record.
\* Started with no current creation, it mints a new id and puts the record
\* at the head, the earlier records following in their order; started on a
\* current creation, it replaces the record with that id where it stands,
\* and the history is as long as before.
C17_UpsertsOne ==
    [][GenerateAllCompletes =>
          LET prev == app.history
              next == app'.history
          IN  IF act.cid = NullId
              THEN /\ app'.currentCreationId \notin ids(prev) \cup {NullId}
                   /\ next # <<>>
                   /\ next[1].id = app'.currentCreationId
                   /\ Tail(next) = prev
              ELSE \E i \in 1..Len(prev) :
                      /\ prev[i].id = act.cid
                      /\ Len(next) = Len(prev)
                      /\ next[i].id = act.cid
                      /\ next = [prev EXCEPT ![i] = next[i]]]_vars


\* the awaited call returns and handleRegenerate runs to its end
RegenerateCompletes ==
    /\ act.name = "Regenerate"
    /\ act.pc = "await"
    /\ act'.pc = "done"

\* a regenerable field as displayed, and as a history record holds it
shown(a, field) ==
    CASE field = "titles" -> a.generatedTitles
      [] field = "description" -> a.generatedDescription
      [] field = "tags" -> a.generatedTags
      [] field = "thumbnail" -> a.generatedThumbnailPrompt
      [] field = "content" -> a.generatedContent
      [] field = "cta" -> a.generatedCta

recorded(c, field) ==
    CASE field = "titles" -> c.titles
      [] field = "description" -> c.description
      [] field = "tags" -> c.tags
      [] field = "thumbnail" -> c.thumbnailPrompt
      [] field = "content" -> c.content
      [] field = "cta" -> c.cta

\* C18: when a Regenerate of one field succeeds while a current creation
\* exists, the history record with the current id stays where it is and
\* holds the newly generated value of that field.
C18_HistoryFollows ==
    [][(RegenerateCompletes /\ app'.currentCreationId # NullId) =>
          /\ Len(app'.history) = Len(app.history)
          /\ \E i \in 1..Len(app.history) :
                /\ app.history[i].id = app'.currentCreationId
                /\ app'.history[i].id = app'.currentCreationId
                /\ recorded(app'.history[i], act.field) = shown(app', act.field)]_vars


\* a handler ended in its catch block, and the user did nothing meanwhile
threw(name) == act.name = name /\ act.pc = "caught" /\ act.interleaved = 0

\* C19: when GenerateAll ends with a thrown error, the six
\* artifact fields, the history and the current creation id are what they
\* were when the action started, with or without a current creation.
C19_AsAtStart == threw("GenerateAll") => committed(app) = act.atStart

ActionStarts == started' = started + 1 /\ act'.pc = "await"

\* the inputs a history record keeps (its thumbnailPrompt is the generated one)
inputsOf(c) ==
    [creationName |-> c.creationName, creationType |-> c.creationType,
     mainPrompt |-> c.mainPrompt, titlePrompt |-> c.titlePrompt,
     descriptionPrompt |-> c.descriptionPrompt,
     characterCount |-> c.characterCount, language |-> c.language]

\* C21: an action takes its GenerationParams from the inputs as they are
\* when it starts and keeps them: whatever the user edits while it is in
\* flight, its first request, the requests and the window of its later
\* refine calls, and the inputs in the history record it writes at the end
\* are those taken at the start.
C21_ParamsSnapshot ==
    [][/\ ActionStarts => act'.params = getGenerationParams(app)
       /\ act.pc = "await" => act'.params = act.params
       /\ (act'.pc = "await" /\ svc'.calls >= 1) =>
             /\ svc'.req.params = act'.params
             /\ svc'.req.op \in WindowOps =>
                   /\ svc'.req.minChars = minCharsOf(act'.params)
                   /\ svc'.req.maxChars = maxCharsOf(act'.params)
       /\ (act'.pc = "await" /\ act'.contents # <<>>) =>
             /\ act'.minChars = minCharsOf(act'.params)
             /\ act'.maxChars = maxCharsOf(act'.params)
       /\ GenerateAllCompletes =>
             \E i \in 1..Len(app'.history) :
                /\ app'.history[i].id = app'.currentCreationId
                /\ inputsOf(app'.history[i]) = inputsOf(act.params)]_vars

C21_Witness ==
    /\ act.name = "GenerateAll"
    /\ act.pc = "done"
    /\ act.interleaved = 1
    /\ act.refineCalls = 2
    /\ act.params.characterCount = DEFAULT_CHARACTER_COUNT
    /\ app.characterCount = 1
    /\ svc.req.maxChars = DEFAULT_CHARACTER_COUNT + WINDOW_MARGIN
    /\ app.history[1].characterCount = DEFAULT_CHARACTER_COUNT


\* C22: while isGenerating, isEnhancing or regeneratingField is set, no
\* control that starts EnhanceIdea, GenerateAll or Regenerate can be used:
\* the Generate, Enhance and regenerate buttons are disabled and the Gerar
\* button of the modal is not on the page, so that at most one such action
\* is in flight.
C22_OneAtATime == isLoading => (actionsDisabled /\ ~modalOpen)


\* the fields of a bundle other than its content
others(b) == <<b.titles, b.description, b.tags, b.cta, b.thumbnailPrompt>>

\* the step in which handleGenerateAll receives the bundle of response r
BundleArrives(r) ==
    /\ act.name = "GenerateAll"
    /\ act.pc = "await"
    /\ svc.op = "generateAllContent"
    /\ svc.state = "calling"
    /\ r.json = "bundle"
    /\ \E t \in Clock :
          LET w == resume([World EXCEPT !.svc = decode(svc, r)], t)
          IN  app' = w.app /\ act' = w.act /\ svc' = w.svc

\* C23: GenerateAll refines and truncates the content only: the titles,
\* description, tags, cta and thumbnail prompt it commits to the displayed
\* fields and to the history record are those of the bundle response,
\* however many refine calls were made.
C23_ContentOnly ==
    [][/\ \A r \in SessionResponses("generateAllContent") :
             BundleArrives(r) => others(act'.allContent) = others(r.fields)
       /\ (act.name = "GenerateAll" /\ act.pc = "await" /\ svc.op = "refineTextLength") =>
             others(act'.allContent) = others(act.allContent)
       /\ GenerateAllCompletes =>
             /\ <<app'.generatedTitles, app'.generatedDescription,
                  app'.generatedTags, app'.generatedCta,
                  app'.generatedThumbnailPrompt>> = others(act'.allContent)
             /\ \E i \in 1..Len(app'.history) :
                   /\ app'.history[i].id = app'.currentCreationId
                   /\ others(app'.history[i]) = others(act'.allContent)]_vars

C23_Witness ==
    /\ act.name = "GenerateAll"
    /\ act.pc = "done"
    /\ act.refineCalls = 2
    /\ Len(act.contents) >= 2
    /\ app.generatedContent # act.contents[1]
    /\ app.generatedDescription = Bundle(EmptyText).description
    /\ app.history[1].description = Bundle(EmptyText).description
    /\ app.history[1].content = app.generatedContent


\* a handler, answered by the responses rs in turn for as long as it awaits
RECURSIVE feed(_, _, _)
feed(w, rs, t) ==
    IF w.act.pc # "await" \/ rs = <<>> THEN w
    ELSE feed(resume([w EXCEPT !.svc = decode(w.svc, Head(rs))], t), Tail(rs), t)

\* handleGenerateAll run on the params of the handler at hand, with its
\* first text as the content of the bundle and its refine responses
asGenerateAll ==
    LET p == act.params
        a == [InitialApp(act.apiKey) EXCEPT
                 !.creationName = p.creationName, !.creationType = p.creationType,
                 !.mainPrompt = p.mainPrompt, !.titlePrompt = p.titlePrompt,
                 !.descriptionPrompt = p.descriptionPrompt,
                 !.thumbnailPrompt = p.thumbnailPrompt,
                 !.characterCount = p.characterCount, !.language = p.language]
        rs == [i \in 1..Len(act.contents) |->
                  IF i = 1 THEN JsonBundle(FALSE, Bundle(act.contents[1]))
                  ELSE TextResponse(act.contents[i])]
    IN  feed(handleGenerateAll([app |-> a, act |-> IdleAct, svc |-> IdleCall], now),
             rs, now)

\* how a refinement ended, as the user is told
outcomeClass(a) ==
    IF a.error # Null THEN "too short"
    ELSE IF a.warning = Null THEN "none"
    ELSE IF a.warning.id = Truncated(0).id THEN "truncated"
    ELSE "refined"

\* C24: Regenerate of the content refines as GenerateAll does: with the same
\* params, the same first text and the same refine responses, both make the
\* same refine calls, commit the same content and end in the same way (no
\* message, refined, truncated, or too short).
C24_SameRefinement ==
    (/\ act.name = "Regenerate"
     /\ act.field = "content"
     /\ act.pc = "done"
     /\ act.params.mainPrompt # EmptyText) =>
        LET g == asGenerateAll
        IN  /\ g.act.pc = "done"
            /\ g.act.contents = act.contents
            /\ g.act.refineCalls = act.refineCalls
            /\ g.act.refinementAttempts = act.refinementAttempts
            /\ g.app.generatedContent = app.generatedContent
            /\ outcomeClass(g.app) = outcomeClass(app)

C24_Witness ==
    /\ act.name = "Regenerate"
    /\ act.field = "content"
    /\ act.pc = "done"
    /\ act.params.mainPrompt = Idea
    /\ act.refineCalls = 2
    /\ outcomeClass(app) = "truncated"
    /\ asGenerateAll.app.warning = app.warning


\* C25: with a key, enhanceStoryPrompt for a Prayer returns the main idea as
\* it is without an upstream call; for a Story it makes its upstream call
\* through the retry wrapper and returns the response text; handleEnhancePrompt
\* calls it once and puts what it returns in the place of the main idea,
\* whatever its length, and changes no artifact field, history record or
\* current creation id.
C25_Enhance ==
    /\ (svc.op = "enhanceStoryPrompt" /\ act.apiKey # ""
          /\ act.params.creationType = Prayer) =>
          /\ svc.state = "returned"
          /\ svc.calls = 0
          /\ svc.result = act.params.mainPrompt
          /\ svc.err = Null
    /\ (svc.op = "enhanceStoryPrompt" /\ act.params.creationType = Story
          /\ svc.state = "returned") =>
          /\ svc.calls = Len(svc.errors) + 1
          /\ svc.result = getText(svc.response)
    /\ act.name = "Enhance" => committed(app) = committed(InitialApp(""))
    /\ (act.name = "Enhance" /\ act.pc = "done") =>
          /\ act.serviceCalls = 1
          /\ app.mainPrompt = svc.result

C25_Witness ==
    /\ act.name = "Enhance"
    /\ act.pc = "done"
    /\ act.params.creationType = Story
    /\ act.params.mainPrompt = Idea
    /\ svc.calls = 2
    /\ app.mainPrompt = <<"i", "d", "e", "a", "+">>


\* C26: if every upstream call responds or fails in the end, every action
\* that was started comes to its end, on success and on every failure path,
\* with its loading flag cleared (isGenerating false and generationStatus
\* null, isEnhancing false, regeneratingField null), and the controls that
\* start an action are enabled again.
C26_Finishes ==
    isLoading ~> (/\ ~isLoading
                  /\ app.generationStatus = Null
                  /\ act.pc \in {"done", "caught"}
                  /\ ~actionsDisabled)

C26_Witness ==
    /\ act.name = "GenerateAll"
    /\ act.pc = "caught"
    /\ act.refineCalls = 1
    /\ svc.calls = MAX_RETRIES + 1
    /\ ~isLoading
    /\ app.generationStatus = Null
    /\ app.error = svc.err


\* C27: whatever was typed in the character-count input, the characterCount
\* in the GenerationParams of an action that starts is a positive integer.
C27_PositiveCount ==
    (act.name \in {"GenerateAll", "Regenerate", "Enhance"} /\ act.pc # "returned") =>
        act.params.characterCount >= 1

(***************************************************************************)
(* The retry wrapper: waits, invocations and status callbacks.             *)
(***************************************************************************)
\* C28 as stated: the backoff waits of generateWithRetry are 1 s, 2 s and
\* 4 s for the first, second and third retry.
C28_FromOneSecond ==
    /\ Len(svc.waits) <= MAX_RETRIES
    /\ \A i \in 1..Len(svc.waits) : svc.waits[i] = 2 ^ (i - 1)

\* C28: the backoff waits of generateWithRetry are 2 s, 4 s and 8 s,
\* doubling, for the first, second and third retry.
C28_FromTwoSeconds ==
    /\ Len(svc.waits) <= MAX_RETRIES
    /\ \A i \in 1..Len(svc.waits) : svc.waits[i] = 2 ^ i
    /\ \A i \in 2..Len(svc.waits) : svc.waits[i] = 2 * svc.waits[i - 1]

C28_Witness ==
    /\ act.name = "Service"
    /\ svc.state = "waiting"
    /\ svc.attempt = 2
    /\ svc.waits = <<2, 4, 8>>

\* C29: when apiCall fails as overloaded k times (0 <= k <= 3) and then
\* succeeds, generateWithRetry returns that response after exactly k + 1
\* invocations and k waits of 2^1 .. 2^k seconds, and throws no error: the
\* caller goes on with that response.
C29_SucceedsAfterRetries ==
    (svc.response # NoResponse /\ AllOverloaded) =>
        LET k == Len(svc.errors)
        IN  /\ k \in 0..MAX_RETRIES
            /\ svc.calls = k + 1
            /\ svc.waits = [i \in 1..k |-> 2 ^ i]
            /\ svc.err \notin {Overloaded} \cup {Upstream(e.message) : e \in AllErrors}
            /\ svc.state \in {"returned", "threw"}
            /\ svc.state = "threw" => svc.err = NotJson
            /\ (svc.op \in TextOps) =>
                  svc.state = "returned" /\ svc.result = getText(svc.response)

C29_Witness ==
    /\ act.name = "Service"
    /\ svc.op \in TextOps
    /\ svc.state = "returned"
    /\ svc.response # NoResponse
    /\ Len(svc.errors) = MAX_RETRIES
    /\ AllOverloaded
    /\ svc.calls = MAX_RETRIES + 1
    /\ svc.waits = <<2, 4, 8>>
    /\ svc.err = Null

numbered(statuses) == [i \in 1..Len(statuses) |-> <<statuses[i][2], statuses[i][3]>>]

\* C30: the status callback, when supplied, is invoked exactly once before
\* each backoff wait and at no other time: never when the first attempt
\* succeeds or fails without being overloaded, k times for k retries,
\* numbered 1/3, 2/3, 3/3, and not on the overloaded failure of the 4th
\* attempt that ends the wrapper.
C30_StatusPerWait ==
    /\ Len(svc.statuses) = (IF svc.callback THEN Len(svc.waits) ELSE 0)
    /\ numbered(svc.statuses) = [i \in 1..Len(svc.statuses) |-> <<i, MAX_RETRIES>>]
    /\ \A i \in 1..Len(svc.statuses) : svc.statuses[i][1] = svc.waits[i]
    /\ (svc.state = "waiting" /\ svc.callback) => Len(svc.statuses) = svc.attempt + 1
    /\ (svc.state = "calling" /\ svc.callback) => Len(svc.statuses) = svc.attempt
    /\ (svc.errors = <<>> \/ ~isOverloaded(svc.errors[1])) => svc.statuses = <<>>
    /\ (Len(svc.errors) = MAX_RETRIES + 1 /\ svc.callback) =>
          Len(svc.statuses) = MAX_RETRIES

C30_Witness ==
    /\ act.name = "Service"
    /\ svc.callback
    /\ svc.state = "threw"
    /\ svc.err = Overloaded
    /\ Len(svc.errors) = MAX_RETRIES + 1
    /\ numbered(svc.statuses) = <<<<1, 3>>, <<2, 3>>, <<3, 3>>>>

(***************************************************************************)
(* The direction of a refinement.                                          *)
(***************************************************************************)
\* a refinement loop calls refineTextLength
RefineIssued ==
    /\ act'.name = act.name
    /\ act'.refineCalls = act.refineCalls + 1
    /\ svc'.op = "refineTextLength"
    /\ svc'.state = "calling"

\* C31: every call of refineTextLength made by a refinement loop receives a
\* text whose length is outside [min, max]; the request asks to summarize
\* exactly when the text is longer than max and to expand otherwise, and the
\* progress message of the same attempt announces the same direction.
C31_Direction ==
    [][RefineIssued =>
          LET req == svc'.req
              tooLong == req.textLength > req.maxChars
              announced == IF act'.name = "GenerateAll"
                           THEN app'.generationStatus ELSE app'.warning
          IN  /\ req.textLength = Len(act'.text)
              /\ req.minChars = act'.minChars /\ req.maxChars = act'.maxChars
              /\ outOfRange(req.textLength, req.minChars, req.maxChars)
              /\ req.task = (IF tooLong THEN "RESUMIR" ELSE "EXPANDIR")
              /\ announced = (IF act'.name = "GenerateAll"
                               THEN Progress(act'.refinementAttempts,
                                             IF tooLong THEN Resumindo ELSE Expandindo)
                               ELSE RegenProgress(act'.refinementAttempts,
                                                  IF tooLong THEN Resumindo ELSE Expandindo))
              /\ act'.refinementAttempts = act'.refineCalls]_vars

C31_Witness ==
    /\ act.name = "GenerateAll"
    /\ act.pc = "await"
    /\ svc.op = "refineTextLength"
    /\ act.refineCalls = 2
    /\ svc.req.task = "EXPANDIR"
    /\ svc.req.textLength > act.params.characterCount
    /\ svc.req.textLength < svc.req.minChars
    /\ app.generationStatus = Progress(2, Expandindo)

(***************************************************************************)
(* The history record: what it keeps of the snapshot.                      *)
(***************************************************************************)
\* the GenerationParams read back from a history record
paramsOf(c) ==
    [creationName |-> c.creationName, creationType |-> c.creationType,
     mainPrompt |-> c.mainPrompt, titlePrompt |-> c.titlePrompt,
     descriptionPrompt |-> c.descriptionPrompt,
     thumbnailPrompt |-> c.thumbnailPrompt,
     characterCount |-> c.characterCount, language |-> c.language]

\* the user loads the record with this id
Loads(id) ==
    /\ id \in ids(app.history)
    /\ app' = handleLoadCreation(app, id)
    /\ app' # app

\* C32: the history record written by GenerateAll holds the snapshot of
\* the GenerationParams unchanged in every field, the thumbnail steering text
\* included, together with the generated bundle; loading a record restores
\* every input to the value of the snapshot and every output to the
\* generated value.
C32_SnapshotRecorded ==
    [][/\ GenerateAllCompletes =>
             \E i \in 1..Len(app'.history) :
                /\ app'.history[i].id = app'.currentCreationId
                /\ paramsOf(app'.history[i]) = act.params
                /\ \A f \in RegenerationFields :
                      recorded(app'.history[i], f) = shown(app', f)
       /\ \A id \in ids(app.history) :
             (Loads(id) /\ act.name = "GenerateAll" /\ act.pc = "done"
                /\ id = app.currentCreationId) =>
                /\ getGenerationParams(app') = act.params
                /\ \A f \in RegenerationFields : shown(app', f) = shown(app, f)]_vars

(***************************************************************************)
(* Deleting a record.                                                      *)
(***************************************************************************)
\* the user deletes the record with this id and confirms
Deletes(id) ==
    /\ id \in ids(app.history)
    /\ app' = handleDeleteCreation(app, id)

\* the positions of the records that do not have this id
keptOf(history, id) == {i \in 1..Len(history) : history[i].id # id}

\* C33: a confirmed Delete(id) removes exactly the records with that id and
\* keeps the other records in their relative order; when id is the current
\* creation id the project is reset (current id null, the six artifact
\* fields empty), otherwise the current creation id and the displayed fields
\* are unchanged.
C33_DeleteExactly ==
    [][\A id \in ids(app.history) : Deletes(id) =>
          /\ id \notin ids(app'.history)
          /\ Len(app'.history) = Cardinality(keptOf(app.history, id))
          /\ \A i \in keptOf(app.history, id) :
                app'.history[Cardinality({j \in keptOf(app.history, id) : j <= i})]
                   = app.history[i]
          /\ IF app.currentCreationId = id
             THEN /\ app'.currentCreationId = NullId
                  /\ artifacts(app') = artifacts(InitialApp(""))
             ELSE /\ app'.currentCreationId = app.currentCreationId
                  /\ artifacts(app') = artifacts(app)]_vars

\* record 2 was loaded and record 1 deleted
C33_Witness ==
    /\ app.currentCreationId = 2
    /\ ids(app.history) = {2}
    /\ app.history = <<SavedHistory[1]>>
    /\ app.generatedContent = SavedHistory[1].content
    /\ act.name = "none"

\* C34: once the user has confirmed Delete(id), no record with that id is
\* in the history again unless a GenerateAll started after the deletion
\* creates it: a GenerateAll that was in flight for that creation when it was
\* deleted neither inserts the record again nor makes it current again.
C34_StaysDeleted ==
    [][(GenerateAllCompletes /\ act.cid # NullId /\ act.cid \notin ids(app.history)) =>
          /\ act.cid \notin ids(app'.history)
          /\ app'.currentCreationId # act.cid]_vars

(***************************************************************************)
(* The history and the current creation.                                   *)
(***************************************************************************)
\* C35: the ids of the history records are pairwise distinct in every
\* reachable state, the history loaded at start having distinct ids:
\* no sequence of GenerateAll, Load, Delete and New creates two records with
\* the same id.
C35_DistinctIds ==
    \A i, j \in 1..Len(app.history) :
        app.history[i].id = app.history[j].id => i = j

\* a GenerateAll on record 1 completed after the record was deleted
C35_Witness ==
    /\ act.name = "GenerateAll"
    /\ act.pc = "done"
    /\ act.cid # NullId
    /\ Len(app.history) = 2
    /\ app.history[1].id = 1
    /\ app.history[2].id = 2
    /\ app.history[1].timestamp >= 3

\* C36: in every reachable state the current creation id is null or the id
\* of a record of the history, however the completion of a GenerateAll,
\* Load, Delete and New interleave.
C36_CurrentInHistory ==
    app.currentCreationId = NullId \/ app.currentCreationId \in ids(app.history)

\* the current creation was deleted while a GenerateAll for it was in flight
C36_Witness ==
    /\ act.name = "GenerateAll"
    /\ act.pc = "await"
    /\ act.cid = 1
    /\ act.interleaved = 1
    /\ ids(app.history) = {2}
    /\ app.currentCreationId = NullId

(***************************************************************************)
(* The persisted history.                                                  *)
(***************************************************************************)
\* C37: once the mount and save effects have settled, the persisted
\* 'generationHistory' entry equals the history in memory, the key being
\* absent exactly when the history is empty, so that a reload restores the
\* same records; the save effect that runs at mount with the empty history
\* loses no history that was persisted before.
C37_Persisted ==
    mount.pc = "settled" =>
        /\ localStorage = NoItem <=> Len(app.history) = 0
        /\ localStorage # NoItem =>
              localStorage.json = "array" /\ parse(localStorage) = app.history
        /\ (started = 0 /\ edits = 0 /\ mount.found # NoItem) =>
              app.history = parse(mount.found) /\ localStorage = mount.found

C37_Witness ==
    /\ mount = Settled(stringify(SavedHistory))
    /\ started = 0
    /\ edits = 0
    /\ app.history = SavedHistory
    /\ localStorage = stringify(SavedHistory)

(***************************************************************************)
(* The upstream requests of one action.                                    *)
(***************************************************************************)
\* the action runs the refinement loop
refines == act.name = "GenerateAll" \/ (act.name = "Regenerate" /\ act.field = "content")

\* C38: one GenerateAll, and one Regenerate(content), issues at most
\* (1 + MAX_REFINEMENT_ATTEMPTS) * (MAX_RETRIES + 1) = 12 upstream requests
\* and at most 1 + MAX_REFINEMENT_ATTEMPTS = 3 retry-wrapped calls; any other
\* Regenerate of one field and EnhanceIdea issue at most MAX_RETRIES + 1 = 4
\* upstream requests.
C38_RequestBudget ==
    /\ refines =>
          /\ act.serviceCalls <= 1 + MAX_REFINEMENT_ATTEMPTS
          /\ act.refineCalls <= MAX_REFINEMENT_ATTEMPTS
          /\ act.requests <= 12
          /\ act.requests <= act.serviceCalls * (MAX_RETRIES + 1)
    /\ (act.name \in {"Regenerate", "Enhance"} /\ ~refines) =>
          /\ act.serviceCalls <= 1
          /\ act.requests <= 4
    /\ act.name \in {"GenerateAll", "Regenerate", "Enhance"} =>
          /\ svc.calls <= MAX_RETRIES + 1
          /\ act.requests >= svc.calls

C38_Witness ==
    /\ act.name = "GenerateAll"
    /\ act.pc = "done"
    /\ act.serviceCalls = 3
    /\ act.requests = 12
    /\ svc.calls = 4

(***************************************************************************)
(* The messages left by an action.                                         *)
(***************************************************************************)
\* the attempt-progress messages of the two refinement loops
ProgressMessages ==
    {Progress(n, d) : n \in 1..MAX_REFINEMENT_ATTEMPTS, d \in {Resumindo, Expandindo}}
       \cup {RegenProgress(n, d) :
                 n \in 1..MAX_REFINEMENT_ATTEMPTS, d \in {Resumindo, Expandindo}}

\* C39: when GenerateAll or Regenerate(content) has completed, error and
\* warning are not both set: one of no message, the refined warning, the
\* truncation warning, the too-short error and the message of the thrown
\* error describes the outcome, and the attempt-progress message of the loop
\* is no longer displayed.
C39_OneMessage ==
    (refines /\ act.pc \in {"done", "caught"} /\ act.interleaved = 0) =>
        /\ ~(app.error # Null /\ app.warning # Null)
        /\ app.generationStatus = Null
        /\ app.warning \notin ProgressMessages
        /\ act.pc = "caught" => app.error # Null /\ app.warning = Null

====
